---- MODULE Spec2Model ----
(***************************************************************************)
(* Block-aware ASAP scheduling and block padding for dynamic circuits.     *)
(*                                                                         *)
(* The operation graph is kept as the sequence of its operation nodes in   *)
(* topological order; a wire is a tagged bit <<"q", i>> or <<"c", i>>.     *)
(* A node is a record                                                      *)
(*   [id, kind, qargs, cargs, cond, duration, blocks]                      *)
(* where cond is the set of condition bits of the operation and blocks the *)
(* sub-block graphs of a control-flow operation (each again a sequence of  *)
(* nodes over the wires of the enclosing node).                            *)
(***************************************************************************)
EXTENDS Integers, Sequences, FiniteSets, TLC

VARIABLES
    dag,            \* the input operation graph handed to the pass manager
    scheduler,      \* which scheduling analysis the pass manager holds
    dd_qubits,      \* the wires the padding policy fills with a decoupling sequence
    pc,             \* position of the pass manager
    run_no,         \* 1 for the first run over dag, 2 for the repeated run
    todo,           \* nodes the running pass still has to visit (the generator)
    sched,          \* fields of the scheduling analysis instance
    pad,            \* fields of the padding pass instance
    frame,          \* locals of the top-level _visit_block call
    property_set,   \* the pass manager's shared property store
    groups,         \* history: every pending measurement group the scheduler held
    first,          \* history: what the first run produced
    durations,      \* fields of the DynamicCircuitInstructionDurations instance
    calls           \* history: how many updates it took, and the argument of the last

pass_vars == <<dag, scheduler, dd_qubits, pc, run_no, todo, sched, pad, frame,
               property_set, groups, first>>

vars == <<dag, scheduler, dd_qubits, pc, run_no, todo, sched, pad, frame,
          property_set, groups, first, durations, calls>>

\* ------------------------------------------------------------------ bounds
\* Longest graph the traversal is run on by itself.
TraversalLen == 5

\* Most entries in one bulk update of the instruction durations.
MaxUpdateLen == 2

\* Most bulk updates one instance of the instruction durations takes.
MaxUpdates == 2


\* Longest enumerated operation graph.
MaxLen == 3

\* ------------------------------------------------------------------ helpers

Max(S) == CHOOSE x \in S : \A y \in S : y <= x

Q(i) == <<"q", i>>

C(i) == <<"c", i>>

RECURSIVE SetToSeq(_)
SetToSeq(S) ==
    IF S = {} THEN <<>>
    ELSE LET m == CHOOSE x \in S : \A y \in S : x[2] <= y[2]
         IN <<m>> \o SetToSeq(S \ {m})

RECURSIVE SumSeq(_)
SumSeq(s) == IF s = <<>> THEN 0 ELSE Head(s) + SumSeq(Tail(s))

\* Python None for an optional node.
NoNode ==
    [id |-> <<>>, kind |-> "none", qargs |-> {}, cargs |-> {}, cond |-> {},
     duration |-> 0, blocks |-> <<>>]

Op(kind, qargs, cargs, cond, duration, blocks) ==
    [id |-> <<>>, kind |-> kind, qargs |-> qargs, cargs |-> cargs, cond |-> cond,
     duration |-> duration, blocks |-> blocks]

\* Node identity: the path of positions from the top-level graph.
RECURSIVE WithIds(_, _)
WithIds(ops, prefix) ==
    [i \in 1..Len(ops) |->
        [ops[i] EXCEPT
            !.id = prefix \o <<i>>,
            !.blocks = [b \in 1..Len(ops[i].blocks) |->
                            WithIds(ops[i].blocks[b], prefix \o <<i, b>>)]]]

IsControlFlowOp(node) == node.kind \in {"if_else", "for_loop"}

IsMeasure(node) == node.kind = "measure"

IsReset(node) == node.kind = "reset"

IsDelay(node) == node.kind = "delay"

IsBarrier(node) == node.kind = "barrier"

\* qiskit's Gate subclasses; a conditioned gate is still a Gate.
IsGate(node) == node.kind = "gate"

\* The graph of one sub-block of a control-flow node.
BlockDag(node, b) ==
    [qubits |-> node.qargs, clbits |-> node.cargs, ops |-> node.blocks[b],
     mdur |-> [q \in node.qargs |-> 0], ddur |-> 0, physical |-> FALSE]

\* ------------------------------------------------------------------ graph queries

\* The wires a node hangs on in the graph: qargs, cargs and condition bits.
Wires(node) == node.qargs \cup node.cargs \cup node.cond

RECURSIVE DescFrom(_, _, _, _)
DescFrom(ops, j, wires, acc) ==
    IF j > Len(ops) THEN acc
    ELSE IF Wires(ops[j]) \cap wires # {}
         THEN DescFrom(ops, j + 1, wires \cup Wires(ops[j]), acc \cup {j})
         ELSE DescFrom(ops, j + 1, wires, acc)

\* dag.descendants(node), as positions in the topological order.
Descendants(ops, i) == DescFrom(ops, i + 1, Wires(ops[i]), {})

\* dag.topological_op_nodes(): the positions in order.
topological_op_nodes(ops) == [i \in 1..Len(ops) |-> i]

\* ------------------------------------------------------------------ utils.block_order_op_nodes

is_grouped_measure(node) == IsReset(node) \/ IsMeasure(node)

is_block_trigger(node) == node.cond # {}

emit(node) == is_grouped_measure(node) \/ is_block_trigger(node)

WaveStart ==
    [next_nodes_set |-> {}, next_nodes |-> <<>>, to_push |-> <<>>,
     yield_measures |-> <<>>, yield_block_triggers |-> <<>>,
     block_break |-> FALSE, yielded |-> <<>>]

\* A loop body that does not hold back the nodes marked for the next
\* iteration.
scan_node_no_skip(ops, i, w) ==
    LET node == ops[i]
        node_descendants == Descendants(ops, i)
    IN IF is_grouped_measure(node)
       THEN [w EXCEPT !.block_break = TRUE,
                      !.next_nodes_set = @ \cup node_descendants,
                      !.yield_measures = Append(@, i)]
       ELSE IF is_block_trigger(node)
       THEN [w EXCEPT !.block_break = TRUE,
                      !.next_nodes_set = @ \cup node_descendants,
                      !.yield_block_triggers = Append(@, i)]
       ELSE IF \E d \in node_descendants : emit(ops[d])
       THEN [w EXCEPT !.yielded = Append(@, i)]
       ELSE [w EXCEPT !.to_push = Append(@, i)]

\* The body of the for loop over curr_nodes for one node.
scan_node(ops, i, w) ==
    LET node == ops[i]
        node_descendants == Descendants(ops, i)
    IN IF i \in w.next_nodes_set
       THEN [w EXCEPT !.next_nodes = Append(@, i)]
       ELSE IF is_grouped_measure(node)
       THEN [w EXCEPT !.block_break = TRUE,
                      !.next_nodes_set = @ \cup node_descendants,
                      !.yield_measures = Append(@, i)]
       ELSE IF is_block_trigger(node)
       THEN [w EXCEPT !.block_break = TRUE,
                      !.next_nodes_set = @ \cup node_descendants,
                      !.yield_block_triggers = Append(@, i)]
       ELSE IF \E d \in node_descendants : emit(ops[d])
       THEN [w EXCEPT !.yielded = Append(@, i)]
       ELSE [w EXCEPT !.to_push = Append(@, i)]

RECURSIVE scan_wave(_, _, _, _)
scan_wave(ops, curr_nodes, k, w) ==
    IF k > Len(curr_nodes) THEN w
    ELSE scan_wave(ops, curr_nodes, k + 1, scan_node(ops, curr_nodes[k], w))

\* A traversal that yields the block triggers of a wave ahead of its
\* measurements and resets.
RECURSIVE waves_triggers_first(_, _, _)
waves_triggers_first(ops, curr_nodes, out) ==
    LET w == scan_wave(ops, curr_nodes, 1, WaveStart)
        emitted == out \o w.yielded \o w.yield_block_triggers \o w.yield_measures
        next_nodes == w.to_push \o w.next_nodes
    IN IF ~w.block_break THEN emitted \o w.to_push
       ELSE IF next_nodes = <<>> THEN emitted
       ELSE waves_triggers_first(ops, next_nodes, emitted)

RECURSIVE waves(_, _, _)
waves(ops, curr_nodes, out) ==
    LET w == scan_wave(ops, curr_nodes, 1, WaveStart)
        emitted == out \o w.yielded \o w.yield_measures \o w.yield_block_triggers
        next_nodes == w.to_push \o w.next_nodes
    IN IF ~w.block_break THEN emitted \o w.to_push
       ELSE IF next_nodes = <<>> THEN emitted
       ELSE waves(ops, next_nodes, emitted)

block_order_positions(ops) == waves(ops, topological_op_nodes(ops), <<>>)

block_order_op_nodes(ops) ==
    LET order == block_order_positions(ops)
    IN [k \in 1..Len(order) |-> ops[order[k]]]

\* ------------------------------------------------------------------ scheduler.ASAPScheduleAnalysis

\* A conditionable set that takes in every kind of instruction.
CONDITIONAL_SUPPORTED_every_kind(node) == node.kind # "none"

\* BaseScheduler.CONDITIONAL_SUPPORTED = (Gate, Delay)
CONDITIONAL_SUPPORTED(node) == IsGate(node) \/ IsDelay(node)

\* ASAPScheduleAnalysis.__init__
ASAP_new ==
    [dag |-> [qubits |-> {}, clbits |-> {}, ops |-> <<>>, mdur |-> <<>>, ddur |-> 0,
              physical |-> TRUE],
     current_block_idx |-> 0,
     conditional_block |-> FALSE,
     node_start_time |-> <<>>,
     idle_after |-> <<>>,
     current_block_measures |-> {},
     current_block_measures_has_reset |-> FALSE,
     error |-> ""]

\* len(dag.qregs) != 1 or dag.qregs.get("q") is None
physical_layout(d) == d.physical

\* An _init_run that leaves the block counter where the last run ended.
ASAP_init_run_keeps_block(S, d) ==
    IF ~physical_layout(d)
    THEN [S EXCEPT !.dag = d, !.conditional_block = FALSE,
                   !.error = "ASAP schedule runs on physical circuits only"]
    ELSE [S EXCEPT !.dag = d, !.conditional_block = FALSE, !.error = "",
                   !.node_start_time = <<>>,
                   !.idle_after = [b \in d.qubits \cup d.clbits |-> <<0, 0>>],
                   !.current_block_measures = {},
                   !.current_block_measures_has_reset = FALSE]

ASAP_init_run(S, d) ==
    LET S1 == [S EXCEPT !.dag = d, !.current_block_idx = 0,
                        !.conditional_block = FALSE, !.error = ""]
    IN IF ~physical_layout(d)
       THEN [S1 EXCEPT !.error = "ASAP schedule runs on physical circuits only"]
       ELSE [S1 EXCEPT
                !.node_start_time = <<>>,
                !.idle_after = [b \in d.qubits \cup d.clbits |-> <<0, 0>>],
                !.current_block_measures = {},
                !.current_block_measures_has_reset = FALSE]

\* node.op.duration as TimeUnitConversion left it; a negative number stands
\* for a duration that is missing or still symbolic.
DurationKnown(node) == node.duration >= 0

ASAP_get_duration(node) == node.duration

\* self.durations.get(Measure(), qubits, unit="dt")
measure_duration(d, qargs) == d.mdur[CHOOSE q \in qargs : TRUE]

ASAP_update_idles(S, node, t0, t1) ==
    [S EXCEPT
        !.idle_after = [b \in DOMAIN @ |->
                            IF b \in node.qargs \cup node.cargs
                            THEN <<S.current_block_idx, t1>> ELSE @[b]],
        !.node_start_time = (node.id :> <<S.current_block_idx, t0>>) @@ @]

ASAP_flush_measures(S) ==
    [S EXCEPT !.current_block_measures = {},
              !.current_block_measures_has_reset = FALSE]

\* A _begin_new_circuit_block that carries the idle-after times over into
\* the new block.
ASAP_begin_new_circuit_block_keeps_idles(S) ==
    ASAP_flush_measures(
        [S EXCEPT !.current_block_idx = @ + 1,
                  !.conditional_block = FALSE])

ASAP_begin_new_circuit_block(S) ==
    ASAP_flush_measures(
        [S EXCEPT !.current_block_idx = @ + 1,
                  !.conditional_block = FALSE,
                  !.idle_after = [b \in S.dag.qubits \cup S.dag.clbits |-> <<0, 0>>]])

ASAP_current_block_measure_qargs(S) ==
    UNION {measure.qargs : measure \in S.current_block_measures}

\* The qubits whose measurement duration times a member of the group.
measure_lookup_qargs(node, measure) == node.qargs

\* A pending group of which only the member just added is timed.
ASAP_update_newest_only(S, node, measures, t0q) ==
    ASAP_update_idles(S, node, t0q,
                      t0q + measure_duration(S.dag, measure_lookup_qargs(node, node)))

\* The loop that re-times every measurement of the pending group.
RECURSIVE ASAP_update_measures(_, _, _, _)
ASAP_update_measures(S, node, measures, t0q) ==
    IF measures = {} THEN S
    ELSE LET measure == CHOOSE m \in measures : TRUE
             t1 == t0q + measure_duration(S.dag, measure_lookup_qargs(node, measure))
         IN ASAP_update_measures(ASAP_update_idles(S, measure, t0q, t1), node,
                                 measures \ {measure}, t0q)

\* A _visit_measure that ends the block at every overlap with the pending
\* group.
ASAP_visit_measure_new_block(S, node, includes_reset) ==
    LET current_block_measure_qargs == ASAP_current_block_measure_qargs(S)
        measure_qargs == node.qargs
        t0q_wires == Max({S.idle_after[q][2] : q \in measure_qargs})
        overlap == current_block_measure_qargs \cap measure_qargs # {}
        S1 == IF overlap THEN ASAP_begin_new_circuit_block(S) ELSE S
        t0q == IF overlap THEN 0
               ELSE Max({t0q_wires} \cup
                        {S.node_start_time[measure.id][2] :
                            measure \in S.current_block_measures})
        S2 == [S1 EXCEPT
                  !.current_block_measures_has_reset =
                      IF includes_reset THEN TRUE ELSE @,
                  !.current_block_measures = @ \cup {node}]
    IN ASAP_update_measures(S2, node, S2.current_block_measures, t0q)

ASAP_visit_measure(S, node, includes_reset) ==
    LET current_block_measure_qargs == ASAP_current_block_measure_qargs(S)
        measure_qargs == node.qargs
        t0q_wires == Max({S.idle_after[q][2] : q \in measure_qargs})
        overlap == current_block_measure_qargs \cap measure_qargs # {}
        S1 == IF overlap
              THEN IF S.current_block_measures_has_reset
                   THEN ASAP_begin_new_circuit_block(S)
                   ELSE ASAP_flush_measures(S)
              ELSE S
        t0q == IF overlap
               THEN IF S.current_block_measures_has_reset THEN 0 ELSE t0q_wires
               ELSE Max({t0q_wires} \cup
                        {S.node_start_time[measure.id][2] :
                            measure \in S.current_block_measures})
        S2 == [S1 EXCEPT
                  !.current_block_measures_has_reset =
                      IF includes_reset THEN TRUE ELSE @,
                  !.current_block_measures = @ \cup {node}]
    IN ASAP_update_measures(S2, node, S2.current_block_measures, t0q)

ASAP_visit_reset(S, node) == ASAP_visit_measure(S, node, TRUE)

\* A _visit_generic that never ends the block.
ASAP_visit_generic_same_block(S, node) ==
    IF ~DurationKnown(node) THEN [S EXCEPT !.error = "Duration is not found"]
    ELSE
    LET op_duration == ASAP_get_duration(node)
        t0 == Max({S.idle_after[bit][2] : bit \in node.qargs \cup node.cargs})
        t1 == t0 + op_duration
    IN ASAP_update_idles(S, node, t0, t1)

ASAP_visit_generic(S, node) ==
    IF ~DurationKnown(node) THEN [S EXCEPT !.error = "Duration is not found"]
    ELSE
    LET op_duration == ASAP_get_duration(node)
        overlap == ASAP_current_block_measure_qargs(S) \cap node.qargs # {}
        S1 == IF overlap THEN ASAP_begin_new_circuit_block(S) ELSE S
        t0 == IF overlap THEN 0
              ELSE Max({S.idle_after[bit][2] : bit \in node.qargs \cup node.cargs})
        t1 == t0 + op_duration
    IN ASAP_update_idles(S1, node, t0, t1)

\* A conditional visit that stays in the block that is open.
ASAP_visit_conditional_node_same_block(S, node) ==
    IF node.cond # {}
    THEN LET S2 == [S EXCEPT !.conditional_block = TRUE]
         IN IF ~DurationKnown(node) THEN [S2 EXCEPT !.error = "Duration is not found"]
            ELSE
            LET op_duration == ASAP_get_duration(node)
                t0q == Max({S2.idle_after[q][2] : q \in node.qargs})
                t0c_read == Max({S2.idle_after[bit][2] : bit \in node.cond})
                t0c == IF t0q > t0c_read THEN t0q ELSE t0c_read
                t1c == t0c
                S3 == [S2 EXCEPT
                          !.idle_after = [b \in DOMAIN @ |->
                              IF b \in node.cond
                              THEN <<S2.current_block_idx, t1c>> ELSE @[b]]]
                t0 == Max({t0q, t1c})
                t1 == t0 + op_duration
            IN ASAP_update_idles(S3, node, t0, t1)
    ELSE ASAP_visit_generic(S, node)

\* A conditional visit that starts the operation when its quantum wires are
\* ready and leaves the conditioning bits as they are.
ASAP_visit_conditional_node_ignores_bits(S, node) ==
    IF node.cond # {}
    THEN LET S1 == IF ~S.conditional_block THEN ASAP_begin_new_circuit_block(S) ELSE S
             S2 == [S1 EXCEPT !.conditional_block = TRUE]
         IN IF ~DurationKnown(node) THEN [S2 EXCEPT !.error = "Duration is not found"]
            ELSE
            LET op_duration == ASAP_get_duration(node)
                t0 == Max({S2.idle_after[q][2] : q \in node.qargs})
                t1 == t0 + op_duration
            IN ASAP_update_idles(S2, node, t0, t1)
    ELSE ASAP_visit_generic(S, node)

ASAP_visit_conditional_node(S, node) ==
    IF node.cond # {}
    THEN LET S1 == IF ~S.conditional_block THEN ASAP_begin_new_circuit_block(S) ELSE S
             S2 == [S1 EXCEPT !.conditional_block = TRUE]
         IN IF ~DurationKnown(node) THEN [S2 EXCEPT !.error = "Duration is not found"]
            ELSE
            LET op_duration == ASAP_get_duration(node)
                t0q == Max({S2.idle_after[q][2] : q \in node.qargs})
                t0c_read == Max({S2.idle_after[bit][2] : bit \in node.cond})
                t0c == IF t0q > t0c_read THEN t0q ELSE t0c_read
                t1c == t0c
                S3 == [S2 EXCEPT
                          !.idle_after = [b \in DOMAIN @ |->
                              IF b \in node.cond
                              THEN <<S2.current_block_idx, t1c>> ELSE @[b]]]
                t0 == Max({t0q, t1c})
                t1 == t0 + op_duration
            IN ASAP_update_idles(S3, node, t0, t1)
    ELSE ASAP_visit_generic(S, node)

\* A _visit_node that lets unconditioned work join an open conditional block.
ASAP_visit_node_joins_conditional(S, node) ==
    IF CONDITIONAL_SUPPORTED(node) /\ node.cond # {}
    THEN ASAP_visit_conditional_node(S, node)
    ELSE IF node.cond # {}
    THEN [S EXCEPT !.error = "Conditional instruction is not supported in ASAP scheduler."]
    ELSE IF IsMeasure(node) THEN ASAP_visit_measure(S, node, FALSE)
    ELSE IF IsReset(node) THEN ASAP_visit_reset(S, node)
    ELSE ASAP_visit_generic(S, node)

ASAP_visit_node(S, node) ==
    IF CONDITIONAL_SUPPORTED(node) /\ node.cond # {}
    THEN ASAP_visit_conditional_node(S, node)
    ELSE IF node.cond # {}
    THEN [S EXCEPT !.error = "Conditional instruction is not supported in ASAP scheduler."]
    ELSE LET S1 == IF S.conditional_block THEN ASAP_begin_new_circuit_block(S) ELSE S
         IN IF IsMeasure(node) THEN ASAP_visit_measure(S1, node, FALSE)
            ELSE IF IsReset(node) THEN ASAP_visit_reset(S1, node)
            ELSE ASAP_visit_generic(S1, node)

\* ------------------------------------------------------------------ scheduling of nested blocks

\* The scheduling analysis that also schedules control-flow nodes and fills
\* "node_block_dags": a conditioned nested block takes the bit-conditioned
\* transition, another one the plain transition, both with zero duration;
\* every sub-block is scheduled as blocks of its own and a new block starts
\* after the node.
RECURSIVE Dyn_visit_node(_, _)
RECURSIVE Dyn_visit_nodes(_, _)
RECURSIVE Dyn_visit_blocks(_, _, _)

Dyn_visit_nodes(S, nodes) ==
    IF nodes = <<>> \/ S.error # "" THEN S
    ELSE Dyn_visit_nodes(Dyn_visit_node(S, Head(nodes)), Tail(nodes))

Dyn_visit_blocks(S, node, b) ==
    IF b > Len(node.blocks) \/ S.error # "" THEN S
    ELSE Dyn_visit_blocks(
             Dyn_visit_nodes(ASAP_begin_new_circuit_block(S),
                             block_order_op_nodes(node.blocks[b])),
             node, b + 1)

Dyn_visit_control_flow_op(S, node) ==
    LET zero == [node EXCEPT !.duration = 0]
        S1 == IF node.cond # {}
              THEN ASAP_visit_conditional_node(S, zero)
              ELSE ASAP_visit_generic(
                       IF S.conditional_block THEN ASAP_begin_new_circuit_block(S) ELSE S,
                       zero)
    IN ASAP_begin_new_circuit_block(Dyn_visit_blocks(S1, node, 1))

Dyn_visit_node(S, node) ==
    IF IsControlFlowOp(node) THEN Dyn_visit_control_flow_op(S, node)
    ELSE ASAP_visit_node(S, node)

\* The visit of the scheduling analysis the pass manager holds.
Sched_visit_node(which, S, node) ==
    IF which = "DynamicCircuitScheduleAnalysis" THEN Dyn_visit_node(S, node)
    ELSE ASAP_visit_node(S, node)

\* ------------------------------------------------------------------ block_base_padder.BlockBasePadder

NoDag == [id |-> 0, qubits |-> {}, clbits |-> {}, nodes |-> <<>>]

\* BlockBasePadder.__init__, with the configuration of the padding policy.
Pad_new(policy_qubits) ==
    [node_start_time |-> <<>>,
     node_block_dags |-> FALSE,
     idle_after |-> <<>>,
     root_dag |-> [qubits |-> {}, clbits |-> {}, ops |-> <<>>, mdur |-> <<>>,
                   ddur |-> 0, physical |-> TRUE],
     dag |-> NoDag,
     block_dag |-> NoDag,
     prev_node |-> NoNode,
     block_duration |-> 0,
     current_block_idx |-> 0,
     conditional_block |-> FALSE,
     last_node_to_touch |-> <<>>,
     fast_path_nodes |-> {},
     property_set |-> [has_node_start_time |-> FALSE, node_start_time |-> <<>>,
                       has_node_block_dags |-> FALSE],
     dd_qubits |-> policy_qubits,
     next_dag |-> 1,
     ret |-> NoDag,
     pad_calls |-> <<>>,
     barrier_calls |-> <<>>,
     fast_path_calls |-> <<>>,
     error |-> ""]

\* An _empty_dag_like that takes the wires of the graph it is given whatever
\* pad_wires says.
Pad_empty_dag_like_own_wires(P, d, pad_wires) ==
    [id |-> P.next_dag, qubits |-> d.qubits, clbits |-> d.clbits, nodes |-> <<>>]

\* A fresh DAGCircuit with the wires _empty_dag_like gives it.
Pad_empty_dag_like(P, d, pad_wires) ==
    LET source_wire_dag == IF pad_wires THEN P.root_dag ELSE d
    IN [id |-> P.next_dag, qubits |-> source_wire_dag.qubits, clbits |-> d.clbits,
        nodes |-> <<>>]

\* The index rustworkx gives the next operation node of a graph: every wire
\* holds an input and an output node before the first operation is applied.
next_node_id(g) == 2 * (Cardinality(g.qubits) + Cardinality(g.clbits)) + Len(g.nodes)

\* self._block_dag.node(node_id) raises IndexError
has_node_index(g, node_id) == node_id < next_node_id(g)

LastNode(P) == P.block_dag.nodes[Len(P.block_dag.nodes)]

\* apply_operation_back alone: the node is added but not scheduled.
Pad_apply_unscheduled_op(P, block_idx, t_start, oper, qubits, clbits, src) ==
    [P EXCEPT !.block_dag.nodes = Append(@,
        [dag |-> P.block_dag.id, nid |-> next_node_id(P.block_dag),
         kind |-> oper.kind, qargs |-> qubits, cargs |-> clbits,
         cond |-> oper.cond, duration |-> oper.duration,
         blocks |-> oper.blocks, src |-> src, from |-> oper.id])]

Pad_apply_scheduled_op(P, block_idx, t_start, oper, qubits, clbits, src) ==
    LET new_node == [dag |-> P.block_dag.id, nid |-> next_node_id(P.block_dag),
                     kind |-> oper.kind, qargs |-> qubits, cargs |-> clbits,
                     cond |-> oper.cond, duration |-> oper.duration,
                     blocks |-> oper.blocks, src |-> src, from |-> oper.id]
    IN [P EXCEPT
           !.block_dag.nodes = Append(@, new_node),
           !.property_set.node_start_time =
               (<<new_node.dag, new_node.nid>> :> <<block_idx, t_start>>) @@ @]

\* Duration of one gate of the decoupling sequence, from the durations the
\* pass was given.
dd_gate_duration(P) == P.root_dag.ddur

\* The padding policy (_pad of the subclass): one delay, or on the wires of
\* dd_qubits a two-gate decoupling sequence when the interval has room;
\* either fills the interval exactly and registers what it adds.
RECURSIVE Pad_fill(_, _, _, _, _)
Pad_fill(P, block_idx, qubit, t, items) ==
    IF items = <<>> THEN P
    ELSE LET it == Head(items)
         IN IF it.duration = 0 /\ it.kind = "delay"
            THEN Pad_fill(P, block_idx, qubit, t, Tail(items))
            ELSE Pad_fill(
                     Pad_apply_scheduled_op(P, block_idx, t,
                         Op(it.kind, {qubit}, {}, {}, it.duration, <<>>),
                         {qubit}, {}, "pad"),
                     block_idx, qubit, t + it.duration, Tail(items))

Pad_pad(P, block_idx, qubit, t_start, t_end, next_node, origin) ==
    LET time_interval == t_end - t_start
        slack == time_interval - 2 * dd_gate_duration(P)
        edge == slack \div 4
        items == IF qubit \in P.dd_qubits /\ slack >= 0
                 THEN << [kind |-> "delay", duration |-> edge],
                         [kind |-> "gate", duration |-> dd_gate_duration(P)],
                         [kind |-> "delay", duration |-> slack - 2 * edge],
                         [kind |-> "gate", duration |-> dd_gate_duration(P)],
                         [kind |-> "delay", duration |-> edge] >>
                 ELSE << [kind |-> "delay", duration |-> time_interval] >>
        P1 == [P EXCEPT !.pad_calls = Append(@,
                   [dag |-> P.block_dag.id, block_idx |-> block_idx, qubit |-> qubit,
                    t_start |-> t_start, t_end |-> t_end, next_node |-> next_node.id,
                    origin |-> origin])]
    IN Pad_fill(P1, block_idx, qubit, t_start, items)

Pad_get_node_duration(node) ==
    IF node.cond # {} \/ IsControlFlowOp(node) THEN 0 ELSE node.duration

Pad_duration_known(node) ==
    node.cond # {} \/ IsControlFlowOp(node) \/ DurationKnown(node)

is_terminating_barrier(P, node) ==
    /\ IsBarrier(node) \/ IsControlFlowOp(node)
    /\ Cardinality(node.qargs) = Cardinality(P.block_dag.qubits)

\* The test without its exemption of fast-path nodes.
Pad_needs_barrier_ignoring_fast_path(P, prev_node, curr_node) ==
    ~ \/ prev_node = NoNode
      \/ IsControlFlowOp(prev_node) /\ IsControlFlowOp(curr_node)
      \/ is_terminating_barrier(P, prev_node)
      \/ is_terminating_barrier(P, curr_node)

Pad_needs_block_terminating_barrier(P, prev_node, curr_node) ==
    LET is_fast_path_node == curr_node.id \in P.fast_path_nodes
    IN ~ \/ prev_node = NoNode
         \/ IsControlFlowOp(prev_node) /\ IsControlFlowOp(curr_node)
         \/ is_terminating_barrier(P, prev_node)
         \/ is_terminating_barrier(P, curr_node)
         \/ is_fast_path_node

Pad_add_block_terminating_barrier(P, block_idx, time, current_node, force) ==
    LET Add(needs_terminating_barrier, P1) ==
            IF needs_terminating_barrier
            THEN Pad_apply_scheduled_op(P1, block_idx, time,
                     Op("barrier", P.block_dag.qubits, {}, {}, 0, <<>>),
                     P.block_dag.qubits, {}, "sync")
            ELSE P1
        Call(needs_terminating_barrier) ==
            Add(needs_terminating_barrier,
                [P EXCEPT !.barrier_calls = Append(@,
                    [dag |-> P.block_dag.id, prev_node |-> P.prev_node.id,
                     current_node |-> current_node.id, force |-> force,
                     added |-> needs_terminating_barrier,
                     block_idx |-> block_idx, time |-> time])])
    IN Call(IF force THEN TRUE
            ELSE Pad_needs_block_terminating_barrier(P, P.prev_node, current_node))

get_idle_after(P, bit) == IF bit \in DOMAIN P.idle_after THEN P.idle_after[bit] ELSE 0

RECURSIVE Pad_pad_until(_, _, _, _)
Pad_pad_until(P, bits, block_duration, block_idx) ==
    IF bits = <<>> THEN P
    ELSE LET bit == Head(bits)
             Fill(idle_after) ==
                 IF block_duration - idle_after > 0
                 THEN Pad_pad(P, block_idx, bit, idle_after, block_duration, NoNode,
                              "block_end")
                 ELSE P
         IN Pad_pad_until(Fill(get_idle_after(P, bit)), Tail(bits), block_duration,
                          block_idx)

Pad_pad_until_block_end(P, block_duration, block_idx) ==
    Pad_pad_until(P, SetToSeq(P.block_dag.qubits), block_duration, block_idx)

\* The wires whose idle time restarts when a block is terminated.
terminate_block_wires(P) == P.block_dag.qubits

Pad_terminate_block(P, block_duration, block_idx) ==
    LET Restart(P1) == [P1 EXCEPT !.idle_after = [bit \in terminate_block_wires(P1) |-> 0]]
    IN Restart(Pad_pad_until_block_end([P EXCEPT !.block_duration = 0],
                                       block_duration, block_idx))

\* The loop over the wires of a node with the policy invoked for every
\* interval that is not negative, the empty one included.
RECURSIVE Pad_generic_wires_fill_empty(_, _, _, _, _, _)
Pad_generic_wires_fill_empty(P, bits, node, block_idx, t0, t1) ==
    IF bits = <<>> THEN P
    ELSE LET bit == Head(bits)
             Occupy(P1) == [P1 EXCEPT !.idle_after = (bit :> t1) @@ @]
         IN Pad_generic_wires_fill_empty(
                Occupy(IF t0 - get_idle_after(P, bit) >= 0
                       THEN Pad_pad(P, block_idx, bit, P.idle_after[bit], t0, node,
                                    "generic")
                       ELSE P),
                Tail(bits), node, block_idx, t0, t1)

RECURSIVE Pad_generic_wires(_, _, _, _, _, _)
Pad_generic_wires(P, bits, node, block_idx, t0, t1) ==
    IF bits = <<>> THEN P
    ELSE LET bit == Head(bits)
             Occupy(P1) == [P1 EXCEPT !.idle_after = (bit :> t1) @@ @]
         IN Pad_generic_wires(
                Occupy(IF t0 - get_idle_after(P, bit) > 0
                       THEN Pad_pad(P, block_idx, bit, P.idle_after[bit], t0, node,
                                    "generic")
                       ELSE P),
                Tail(bits), node, block_idx, t0, t1)

\* The block-crossing test shared by _visit_delay and _visit_generic.
Pad_cross_block(P, node, block_idx, t0) ==
    IF block_idx > P.current_block_idx
    THEN Pad_add_block_terminating_barrier(
             Pad_terminate_block(P, P.block_duration, P.current_block_idx),
             block_idx, t0, node, FALSE)
    ELSE P

Pad_visit_delay(P, node) ==
    LET block_idx == P.node_start_time[node.id][1]
        t0 == P.node_start_time[node.id][2]
        t1 == t0 + Pad_get_node_duration(node)
        Visit(P1) ==
            IF ~Pad_duration_known(node) THEN [P1 EXCEPT !.error = "Duration is not found"]
            ELSE [P1 EXCEPT !.conditional_block = (node.cond # {}),
                            !.current_block_idx = block_idx,
                            !.block_duration = Max({@, t1})]
    IN Visit(Pad_cross_block(P, node, block_idx, t0))

Pad_visit_generic(P, node) ==
    LET block_idx == P.node_start_time[node.id][1]
        t0 == P.node_start_time[node.id][2]
        t1 == t0 + Pad_get_node_duration(node)
        Touch(P4, new_node) ==
            [P4 EXCEPT !.last_node_to_touch =
                [bit \in new_node.qargs \cup new_node.cargs |-> new_node] @@ @]
        Apply(P4) == Touch(P4, LastNode(P4))
        Fill(P2) ==
            IF \E bit \in node.qargs :
                   t0 - get_idle_after(P2, bit) > 0 /\ bit \notin DOMAIN P2.idle_after
            THEN [P2 EXCEPT !.error = "KeyError"]
            ELSE Apply(Pad_apply_scheduled_op(
                           Pad_generic_wires(P2, SetToSeq(node.qargs), node, block_idx,
                                             t0, t1),
                           block_idx, t0, node, node.qargs, node.cargs, "op"))
        Visit(P1) ==
            IF ~Pad_duration_known(node) THEN [P1 EXCEPT !.error = "Duration is not found"]
            ELSE Fill([P1 EXCEPT !.conditional_block = (node.cond # {}),
                                 !.current_block_idx = block_idx,
                                 !.block_duration = Max({@, t1})])
    IN Visit(Pad_cross_block(P, node, block_idx, t0))

\* Whether the block contents keep _will_use_fast_path on the fast path.
fast_path_contents(node) ==
    \A b \in 1..Len(node.blocks) : \A k \in 1..Len(node.blocks[b]) :
        IsGate(node.blocks[b][k]) \/ IsDelay(node.blocks[b][k])

\* Whether the last node that touched a bit passes for a node of the block graph.
last_node_in_block(P, last_node) == has_node_index(P.block_dag, last_node.nid)

Pad_will_use_fast_path(P, node) ==
    /\ \A bit \in node.cond :
          /\ bit \in DOMAIN P.last_node_to_touch
          /\ last_node_in_block(P, P.last_node_to_touch[bit])
          /\ IsMeasure(P.last_node_to_touch[bit])
          /\ node.qargs = P.last_node_to_touch[bit].qargs
    /\ fast_path_contents(node)

RECURSIVE Pad_visit_node(_, _)
RECURSIVE Pad_visit_nodes(_, _)
RECURSIVE Pad_visit_block(_, _, _)
RECURSIVE Pad_visit_blocks(_, _, _, _, _)

\* _visit_block up to its loop.
Pad_block_begin(P, block, pad_wires) ==
    [P EXCEPT !.prev_node = NoNode,
              !.block_dag = Pad_empty_dag_like(P, block, pad_wires),
              !.next_dag = @ + 1,
              !.block_duration = 0,
              !.conditional_block = FALSE]

\* The tail of _visit_block without its edge case.
Pad_block_end_no_edge_case(P, prev_node, prev_block_dag) ==
    LET Return(P2) == [P2 EXCEPT !.ret = P2.block_dag,
                                 !.block_dag = prev_block_dag,
                                 !.prev_node = prev_node]
    IN Return(Pad_terminate_block(P, P.block_duration, P.current_block_idx))

\* _visit_block after its loop; prev_node and prev_block_dag are its locals.
Pad_block_end(P, prev_node, prev_block_dag) ==
    LET prev_block_duration == P.block_duration
        prev_block_idx == P.current_block_idx
        Return(P2) == [P2 EXCEPT !.ret = P2.block_dag,
                                 !.block_dag = prev_block_dag,
                                 !.prev_node = prev_node]
        Edge(P1) ==
            Return(IF P1.prev_node.id \in P1.fast_path_nodes /\ P1.prev_node # NoNode
                   THEN Pad_add_block_terminating_barrier(P1, prev_block_duration,
                            prev_block_idx, P1.prev_node, TRUE)
                   ELSE P1)
    IN Edge(Pad_terminate_block(P, P.block_duration, P.current_block_idx))

Pad_visit_nodes(P, nodes) ==
    IF nodes = <<>> \/ P.error # "" THEN P
    ELSE Pad_visit_nodes(Pad_visit_node(P, Head(nodes)), Tail(nodes))

Pad_visit_block(P, block, pad_wires) ==
    LET After(P1) == IF P1.error # "" THEN P1
                     ELSE Pad_block_end(P1, P.prev_node, P.block_dag)
    IN After(Pad_visit_nodes(Pad_block_begin(P, block, pad_wires),
                             block_order_op_nodes(block.ops)))

\* The loop of _visit_control_flow_op over node.op.blocks.
Pad_visit_blocks(P, node, b, acc, pad_wires) ==
    IF b > Len(node.blocks) \/ P.error # "" THEN [P |-> P, new_node_block_dags |-> acc]
    ELSE LET Collect(P1) ==
                 Pad_visit_blocks(P1, node, b + 1, Append(acc, P1.ret), pad_wires)
         IN Collect(Pad_visit_block(P, BlockDag(node, b), pad_wires))

\* The block index _visit_control_flow_op records for the rebuilt node: its
\* loop over the blocks rebinds block_idx.
control_flow_block_idx(node, block_idx) ==
    IF Len(node.blocks) = 0 THEN block_idx ELSE Len(node.blocks) - 1

\* The time up to which visiting a control-flow node pads the open block.
control_flow_terminate_time(P, t0) == t0

Pad_visit_control_flow_op(P, node) ==
    IF node.id \notin DOMAIN P.node_start_time THEN [P EXCEPT !.error = "KeyError"]
    ELSE
    LET block_idx == P.node_start_time[node.id][1]
        t0 == P.node_start_time[node.id][2]
        fast_path_node == node.id \in P.fast_path_nodes
        Rebuild(P3, new_control_flow_op) ==
            IF P3.error # "" THEN P3
            ELSE Pad_apply_scheduled_op(P3, control_flow_block_idx(node, block_idx), t0,
                     new_control_flow_op,
                     IF fast_path_node THEN node.qargs ELSE P3.block_dag.qubits,
                     node.cargs, "op")
        Blocks(r) == Rebuild(r.P, [node EXCEPT !.blocks = r.new_node_block_dags])
        Enter(P2) ==
            IF ~P.node_block_dags THEN [P2 EXCEPT !.error = "TypeError"]
            ELSE Blocks(Pad_visit_blocks(P2, node, 1, <<>>, ~fast_path_node))
    IN Enter(Pad_add_block_terminating_barrier(
                 Pad_terminate_block(P, control_flow_terminate_time(P, t0), block_idx),
                 block_idx, t0, node, FALSE))

Pad_visit_if_else_op(P, node) ==
    LET Decide(fast) ==
            Pad_visit_control_flow_op(
                [P EXCEPT !.fast_path_nodes = IF fast THEN @ \cup {node.id} ELSE @,
                          !.fast_path_calls = Append(@,
                              [block_dag |-> P.block_dag, node |-> node, fast |-> fast])],
                node)
    IN Decide(Pad_will_use_fast_path(P, node))

Pad_visit_node(P, node) ==
    LET Visited(P1) == IF P1.error # "" THEN P1 ELSE [P1 EXCEPT !.prev_node = node]
    IN Visited(
           IF IsControlFlowOp(node)
           THEN IF node.kind = "if_else" THEN Pad_visit_if_else_op(P, node)
                ELSE Pad_visit_control_flow_op(P, node)
           ELSE IF node.id \in DOMAIN P.node_start_time
           THEN IF IsDelay(node) THEN Pad_visit_delay(P, node)
                ELSE Pad_visit_generic(P, node)
           ELSE [P EXCEPT !.error =
                    "Operation is likely added after the circuit is scheduled."])

\* An _init_run that leaves the published map as the scheduler wrote it.
Pad_init_run_keeps_map(P, d, ps) ==
    LET P1 == [P EXCEPT
                  !.node_start_time = ps.node_start_time,
                  !.node_block_dags = ps.has_node_block_dags,
                  !.idle_after = [bit \in d.qubits |-> 0],
                  !.current_block_idx = 0,
                  !.conditional_block = FALSE,
                  !.block_duration = 0,
                  !.root_dag = d,
                  !.error = "",
                  !.pad_calls = <<>>,
                  !.barrier_calls = <<>>,
                  !.fast_path_calls = <<>>,
                  !.ret = NoDag,
                  !.next_dag = 1]
        new_dag == Pad_empty_dag_like(P1, d, TRUE)
    IN [P1 EXCEPT
           !.dag = new_dag,
           !.block_dag = new_dag,
           !.next_dag = @ + 1,
           !.last_node_to_touch = <<>>,
           !.fast_path_nodes = {},
           !.property_set = ps,
           !.prev_node = NoNode]

\* The fields _init_run sets; the policy configuration stays.
Pad_init_run(P, d, ps) ==
    LET P1 == [P EXCEPT
                  !.node_start_time = ps.node_start_time,
                  !.node_block_dags = ps.has_node_block_dags,
                  !.idle_after = [bit \in d.qubits |-> 0],
                  !.current_block_idx = 0,
                  !.conditional_block = FALSE,
                  !.block_duration = 0,
                  !.root_dag = d,
                  !.error = "",
                  !.pad_calls = <<>>,
                  !.barrier_calls = <<>>,
                  !.fast_path_calls = <<>>,
                  !.ret = NoDag,
                  !.next_dag = 1]
        new_dag == Pad_empty_dag_like(P1, d, TRUE)
    IN [P1 EXCEPT
           !.dag = new_dag,
           !.block_dag = new_dag,
           !.next_dag = @ + 1,
           !.last_node_to_touch = <<>>,
           !.fast_path_nodes = {},
           !.property_set = [ps EXCEPT !.node_start_time = <<>>],
           !.prev_node = NoNode]

\* ------------------------------------------------------------------ utils.DynamicCircuitInstructionDurations

MEASURE_PATCH_CYCLES == 160

\* Python None for the qubits or the parameters of an entry.
None == <<>>

\* DynamicCircuitInstructionDurations.__init__ without entries. The three
\* dicts of InstructionDurations map to (duration, unit); patches is the
\* history of the writes of _patch_key during the last update.
Dur_new(enable_patching) ==
    [duration_by_name |-> <<>>,
     duration_by_name_qubits |-> <<>>,
     duration_by_name_qubits_params |-> <<>>,
     enable_patching |-> enable_patching,
     error |-> "",
     patches |-> <<>>]

NoCalls == [n |-> 0, inst_durations |-> <<>>]

\* d[k] = v
SetItem(d, k, v) == (k :> v) @@ d

\* InstructionDurations.update for a list of
\* (name, qubits, duration, parameters, unit) entries.
RECURSIVE Base_update(_, _)
Base_update(D, items) ==
    IF items = <<>> THEN D
    ELSE LET it == Head(items)
         IN Base_update(
                IF it.qubits = None
                THEN [D EXCEPT !.duration_by_name =
                         SetItem(@, it.name, <<it.duration, it.unit>>)]
                ELSE IF it.parameters = None
                THEN [D EXCEPT !.duration_by_name_qubits =
                         SetItem(@, <<it.name, it.qubits>>, <<it.duration, it.unit>>)]
                ELSE [D EXCEPT !.duration_by_name_qubits_params =
                         SetItem(@, <<it.name, it.qubits, it.parameters>>,
                                 <<it.duration, it.unit>>)],
                Tail(items))

\* The key update builds for an entry.
InstrKey(it) ==
    IF it.qubits = None THEN <<it.name, None, None>>
    ELSE IF it.parameters = None THEN <<it.name, it.qubits, None>>
    ELSE <<it.name, it.qubits, it.parameters>>

\* Whether _get_duration_dt finds the key, instead of raising KeyError.
Dur_has(D, key) ==
    IF key[2] = None /\ key[3] = None THEN key[1] \in DOMAIN D.duration_by_name
    ELSE IF key[3] = None THEN <<key[1], key[2]>> \in DOMAIN D.duration_by_name_qubits
    ELSE key \in DOMAIN D.duration_by_name_qubits_params

Dur_get_duration_dt(D, key) ==
    IF key[2] = None /\ key[3] = None THEN D.duration_by_name[key[1]]
    ELSE IF key[3] = None THEN D.duration_by_name_qubits[<<key[1], key[2]>>]
    ELSE D.duration_by_name_qubits_params[key]

Dur_patch_key(D, key, duration, unit) ==
    LET Last(D1) ==
            [D1 EXCEPT
                !.duration_by_name_qubits_params = SetItem(@, key, <<duration, unit>>),
                !.patches = Append(@, [key |-> key, duration |-> duration, unit |-> unit,
                                       before |-> IF Dur_has(D, key)
                                                  THEN Dur_get_duration_dt(D, key)
                                                  ELSE None])]
    IN Last(IF key[2] = None /\ key[3] = None
            THEN [D EXCEPT !.duration_by_name = SetItem(@, key[1], <<duration, unit>>)]
            ELSE IF key[3] = None
            THEN [D EXCEPT !.duration_by_name_qubits =
                     SetItem(@, <<key[1], key[2]>>, <<duration, unit>>)]
            ELSE D)

Dur_patch_reset(D, key) ==
    LET Patch(pair) == Dur_patch_key(D, key, pair[1], pair[2])
        Extend(pair) ==
            IF pair[2] # "dt"
            THEN [D EXCEPT !.error = "Can currently only patch durations of dt."]
            ELSE Dur_patch_key(D, key, pair[1] + MEASURE_PATCH_CYCLES, pair[2])
    IN IF Dur_has(D, <<"measure", key[2], key[3]>>)
       THEN Patch(Dur_get_duration_dt(D, <<"measure", key[2], key[3]>>))
       ELSE IF ~Dur_has(D, key) THEN [D EXCEPT !.error = "KeyError"]
       ELSE Extend(Dur_get_duration_dt(D, key))

Dur_patch_measurement(D, key) ==
    LET Extend(pair) ==
            IF pair[2] # "dt"
            THEN [D EXCEPT !.error = "Can currently only patch durations of dt."]
            ELSE Dur_patch_reset(
                     Dur_patch_key(D, key, pair[1] + MEASURE_PATCH_CYCLES, pair[2]),
                     <<"reset", key[2], key[3]>>)
    IN IF ~Dur_has(D, key) THEN [D EXCEPT !.error = "KeyError"]
       ELSE Extend(Dur_get_duration_dt(D, key))

Dur_patch_instruction(D, key) ==
    IF key[1] = "measure" THEN Dur_patch_measurement(D, key)
    ELSE IF key[1] = "reset" THEN Dur_patch_reset(D, key)
    ELSE D

\* The loop of update over the entries; a raise ends it.
RECURSIVE Dur_patch_entries(_, _)
Dur_patch_entries(D, items) ==
    IF items = <<>> \/ D.error # "" THEN D
    ELSE Dur_patch_entries(Dur_patch_instruction(D, InstrKey(Head(items))), Tail(items))

Dur_update(D, inst_durations) ==
    LET Patched(D1) ==
            IF ~D1.enable_patching THEN D1 ELSE Dur_patch_entries(D1, inst_durations)
    IN Patched(Base_update([D EXCEPT !.error = "", !.patches = <<>>], inst_durations))

\* ------------------------------------------------------------------ input graphs

Q0 == Q(0)

Q1 == Q(1)

C0 == C(0)

C1b == C(1)

\* The operations the enumerated graphs are built from (two qubits, two clbits).
Alphabet ==
    { Op("gate", {Q0}, {}, {}, 1, <<>>),
      Op("gate", {Q1}, {}, {}, 2, <<>>),
      Op("gate", {Q0, Q1}, {}, {}, 3, <<>>),
      Op("measure", {Q0}, {C0}, {}, 4, <<>>),
      Op("measure", {Q1}, {C1b}, {}, 2, <<>>),
      Op("reset", {Q1}, {}, {}, 5, <<>>),
      Op("gate", {Q1}, {}, {C0}, 2, <<>>),
      Op("delay", {Q1}, {}, {}, 4, <<>>),
      Op("barrier", {Q0, Q1}, {}, {}, 0, <<>>),
      Op("if_else", {Q0}, {C0}, {C0}, -1, << <<Op("gate", {Q0}, {}, {}, 1, <<>>)>> >>),
      Op("if_else", {Q0}, {C0}, {C0}, -1, << <<Op("measure", {Q0}, {C0}, {}, 4, <<>>)>> >>),
      Op("if_else", {Q0}, {C0}, {C0}, -1, << <<Op("gate", {Q0}, {}, {C0}, 1, <<>>)>> >>),
      Op("for_loop", {Q1}, {}, {}, -1, << <<Op("gate", {Q1}, {}, {}, 2, <<>>)>> >>) }

MkDag(qubits, clbits, mdur, ddur, ops) ==
    [qubits |-> qubits, clbits |-> clbits, ops |-> WithIds(ops, <<>>),
     mdur |-> mdur, ddur |-> ddur, physical |-> TRUE]

EnumeratedDags ==
    { MkDag({Q0, Q1}, {C0, C1b}, (Q0 :> 4) @@ (Q1 :> 2), 1, ops) :
        ops \in UNION {[1..n -> Alphabet] : n \in 0..MaxLen} }

\* The four-qubit chain of the unit tests, with their durations:
\* h 50, cx(0,1) 700, cx(1,2) 200, cx(2,3) 300, x 50, measure 840.
GHZ4 ==
    MkDag({Q(0), Q(1), Q(2), Q(3)}, {}, [q \in {Q(0), Q(1), Q(2), Q(3)} |-> 840], 50,
          << Op("gate", {Q(0)}, {}, {}, 50, <<>>),
             Op("gate", {Q(0), Q(1)}, {}, {}, 700, <<>>),
             Op("gate", {Q(1), Q(2)}, {}, {}, 200, <<>>),
             Op("gate", {Q(2), Q(3)}, {}, {}, 300, <<>>) >>)

\* The circuit of test_dd_c_if: three qubits and one clbit, two gates
\* conditioned on the measured clbit, delays and gates in between.
DDCIf ==
    MkDag({Q(0), Q(1), Q(2)}, {C(0)}, [q \in {Q(0), Q(1), Q(2)} |-> 840], 50,
          << Op("measure", {Q(0)}, {C(0)}, {}, 840, <<>>),
             Op("gate", {Q(2)}, {}, {}, 50, <<>>),
             Op("delay", {Q(1)}, {}, {}, 1000, <<>>),
             Op("gate", {Q(1)}, {}, {C(0)}, 50, <<>>),
             Op("delay", {Q(1)}, {}, {}, 8000, <<>>),
             Op("gate", {Q(2)}, {}, {C(0)}, 50, <<>>),
             Op("delay", {Q(2)}, {}, {}, 1000, <<>>),
             Op("gate", {Q(0)}, {}, {}, 50, <<>>),
             Op("gate", {Q(2)}, {}, {}, 50, <<>>) >>)

\* Two gates on wire q, each conditioned on a measurement of wire 0 taken
\* for it, with the operation work on wire 2 in between.
FreshCIf(q, work) ==
    MkDag({Q(0), Q(1), Q(2)}, {C(0)}, [w \in {Q(0), Q(1), Q(2)} |-> 840], 50,
          << Op("measure", {Q(0)}, {C(0)}, {}, 840, <<>>),
             Op("gate", {q}, {}, {C(0)}, 50, <<>>),
             work,
             Op("measure", {Q(0)}, {C(0)}, {}, 840, <<>>),
             Op("gate", {q}, {}, {C(0)}, 50, <<>>) >>)

FreshCIfDags ==
    { FreshCIf(q, work) :
        q \in {Q(0), Q(1)},
        work \in { Op("gate", {Q(2)}, {}, {}, 50, <<>>),
                   Op("delay", {Q(2)}, {}, {}, 1000, <<>>),
                   Op("reset", {Q(2)}, {}, {}, 840, <<>>) } }

\* The circuit of test_insert_midmeas_hahn, with the durations of the tests:
\* cx(0,1) 700, cx(1,2) 200, u 100, rx 100, and measure 840 which the
\* durations provider of the tests extends by MEASURE_PATCH_CYCLES.
MidMeas ==
    MkDag({Q(0), Q(1), Q(2)}, {C(0)},
          [q \in {Q(0), Q(1), Q(2)} |-> 840 + MEASURE_PATCH_CYCLES], 100,
          << Op("gate", {Q(0), Q(1)}, {}, {}, 700, <<>>),
             Op("gate", {Q(1), Q(2)}, {}, {}, 200, <<>>),
             Op("gate", {Q(0)}, {}, {}, 100, <<>>),
             Op("measure", {Q(2)}, {C(0)}, {}, 840 + MEASURE_PATCH_CYCLES, <<>>),
             Op("gate", {Q(1), Q(2)}, {}, {}, 200, <<>>),
             Op("gate", {Q(0), Q(1)}, {}, {}, 700, <<>>) >>)

\* The circuit of test_dd_after_reset: h 50, x 50, and reset, which the
\* durations provider of the tests gives the patched measure duration.
AfterReset ==
    MkDag({Q(0)}, {}, [q \in {Q(0)} |-> 840 + MEASURE_PATCH_CYCLES], 50,
          << Op("reset", {Q(0)}, {}, {}, 840 + MEASURE_PATCH_CYCLES, <<>>),
             Op("delay", {Q(0)}, {}, {}, 1000, <<>>),
             Op("gate", {Q(0)}, {}, {}, 50, <<>>),
             Op("delay", {Q(0)}, {}, {}, 2000, <<>>),
             Op("gate", {Q(0)}, {}, {}, 50, <<>>) >>)

\* Graphs with instructions whose duration is symbolic or has no entry: a
\* delay, a gate and a conditioned gate without a duration among operations
\* that have one.
UnboundAlphabet ==
    { Op("gate", {Q0}, {}, {}, 1, <<>>),
      Op("measure", {Q0}, {C0}, {}, 4, <<>>),
      Op("delay", {Q1}, {}, {}, -1, <<>>),
      Op("gate", {Q0, Q1}, {}, {}, -1, <<>>),
      Op("gate", {Q1}, {}, {C0}, -1, <<>>) }

UnboundDags ==
    { MkDag({Q0, Q1}, {C0, C1b}, (Q0 :> 4) @@ (Q1 :> 2), 1, ops) :
        ops \in UNION {[1..n -> UnboundAlphabet] : n \in 1..MaxLen} }

\* Graphs of bit-conditioned operations of every kind, after a measurement
\* or without one.
ConditionedAlphabet ==
    { Op("measure", {Q0}, {C0}, {}, 4, <<>>),
      Op("gate", {Q1}, {}, {C0}, 2, <<>>),
      Op("delay", {Q0}, {}, {C0}, 3, <<>>),
      Op("measure", {Q1}, {C1b}, {C0}, 2, <<>>),
      Op("reset", {Q1}, {}, {C0}, 5, <<>>),
      Op("barrier", {Q0, Q1}, {}, {C0}, 0, <<>>) }

ConditionedDags ==
    { MkDag({Q0, Q1}, {C0, C1b}, (Q0 :> 4) @@ (Q1 :> 2), 1, ops) :
        ops \in UNION {[1..n -> ConditionedAlphabet] : n \in 1..MaxLen} }

\* Longer graphs of measurements on two wires and a gate, in which a pending
\* group of two wires is formed, flushed and re-aligned.
MeasureGroupLen == 5

MeasureGroupAlphabet ==
    { Op("measure", {Q0}, {C0}, {}, 4, <<>>),
      Op("measure", {Q1}, {C1b}, {}, 2, <<>>),
      Op("gate", {Q1}, {}, {}, 2, <<>>) }

MeasureGroupDags ==
    { MkDag({Q0, Q1}, {C0, C1b}, (Q0 :> 4) @@ (Q1 :> 2), 1, ops) :
        ops \in [1..MeasureGroupLen -> MeasureGroupAlphabet] }

Dags ==
    EnumeratedDags \cup {GHZ4, DDCIf, MidMeas, AfterReset} \cup FreshCIfDags \cup UnboundDags
        \cup ConditionedDags \cup MeasureGroupDags

HasControlFlow(d) == \E i \in 1..Len(d.ops) : IsControlFlowOp(d.ops[i])

\* ------------------------------------------------------------------ the pass manager

PropertySetEmpty ==
    [has_node_start_time |-> FALSE, node_start_time |-> <<>>,
     has_node_block_dags |-> FALSE]

FirstNone ==
    [schedule |-> <<>>, new_dag |-> NoDag, node_start_time |-> <<>>, policy |-> {}]

Init ==
    /\ dag \in Dags
    /\ scheduler \in IF HasControlFlow(dag)
                     THEN {"ASAPScheduleAnalysis", "DynamicCircuitScheduleAnalysis"}
                     ELSE {"ASAPScheduleAnalysis"}
    /\ dd_qubits = {}
    /\ pc = "start"
    /\ run_no = 1
    /\ todo = <<>>
    /\ sched = ASAP_new
    /\ pad = Pad_new(dd_qubits)
    /\ frame = [prev_node |-> NoNode, prev_block_dag |-> NoDag]
    /\ property_set = PropertySetEmpty
    /\ groups = {}
    /\ first = FirstNone
    /\ durations = Dur_new(TRUE)
    /\ calls = NoCalls

\* ASAPScheduleAnalysis.run up to the loop: _init_run and the traversal.
SchedInit ==
    /\ pc = "start"
    /\ sched' = ASAP_init_run(sched, dag)
    /\ pc' = IF sched'.error # "" THEN "error" ELSE "schedule"
    /\ todo' = IF sched'.error # "" THEN <<>> ELSE block_order_op_nodes(dag.ops)
    /\ UNCHANGED <<durations, calls, dag, scheduler, dd_qubits, run_no, pad, frame, property_set,
                   groups, first>>

\* An iteration that publishes the map as far as it is.
SchedVisit_publishing ==
    /\ pc = "schedule"
    /\ todo # <<>>
    /\ sched' = Sched_visit_node(scheduler, sched, Head(todo))
    /\ todo' = Tail(todo)
    /\ pc' = IF sched'.error # "" THEN "error" ELSE "schedule"
    /\ property_set' = [property_set EXCEPT
            !.has_node_start_time = TRUE,
            !.node_start_time = sched'.node_start_time]
    /\ UNCHANGED <<durations, calls, dag, scheduler, dd_qubits, run_no, pad, frame, groups, first>>

\* One iteration of the loop of run: _visit_node on the next node.
SchedVisit ==
    /\ pc = "schedule"
    /\ todo # <<>>
    /\ sched' = Sched_visit_node(scheduler, sched, Head(todo))
    /\ todo' = Tail(todo)
    /\ pc' = IF sched'.error # "" THEN "error" ELSE "schedule"
    /\ groups' = IF sched'.error = "" /\ sched'.current_block_measures # {}
                 THEN groups \cup {[block |-> sched'.current_block_idx,
                                    members |-> {m.id : m \in sched'.current_block_measures},
                                    start |-> Max({sched'.node_start_time[m.id][2] :
                                                     m \in sched'.current_block_measures})]}
                 ELSE groups
    /\ UNCHANGED <<durations, calls, dag, scheduler, dd_qubits, run_no, pad, frame, property_set, first>>

\* The last statement of run: the schedule is published.
SchedPublish ==
    /\ pc = "schedule"
    /\ todo = <<>>
    /\ property_set' = [property_set EXCEPT
            !.has_node_start_time = TRUE,
            !.node_start_time = sched.node_start_time,
            !.has_node_block_dags = (scheduler = "DynamicCircuitScheduleAnalysis")]
    /\ pc' = "scheduled"
    /\ first' = IF run_no = 1 THEN [first EXCEPT !.schedule = sched.node_start_time]
                ELSE first
    /\ UNCHANGED <<durations, calls, dag, scheduler, dd_qubits, run_no, todo, sched, pad, frame, groups>>

\* The operations a transformation pass may add to a scheduled graph.
TransformOps ==
    { Op("gate", {Q0}, {}, {}, 1, <<>>),
      Op("delay", {Q1}, {}, {}, 4, <<>>),
      Op("if_else", {Q0}, {C0}, {C0}, -1, << <<Op("gate", {Q0}, {}, {}, 1, <<>>)>> >>),
      Op("for_loop", {Q1}, {}, {}, -1, << <<Op("gate", {Q1}, {}, {}, 2, <<>>)>> >>) }

\* A pass placed between the scheduler and the padder adds an operation to
\* the graph; the schedule map is left as the scheduler published it.
Transform ==
    /\ pc = "scheduled"
    /\ run_no = 1
    /\ dag \in EnumeratedDags
    /\ Len(dag.ops) < MaxLen
    /\ \E op \in TransformOps : dag' = [dag EXCEPT !.ops = WithIds(Append(@, op), <<>>)]
    /\ pc' = "transformed"
    /\ UNCHANGED <<durations, calls, scheduler, dd_qubits, run_no, todo, sched, pad, frame, property_set,
                   groups, first>>

\* A padder that walks the graph in plain dependency order instead of the
\* block order the scheduler walked it in.
PadInit_topological ==
    /\ pc \in {"scheduled", "transformed"}
    /\ property_set.has_node_start_time
    /\ LET P0 == Pad_init_run(pad, dag, property_set)
       IN /\ pad' = Pad_block_begin(P0, dag, TRUE)
          /\ frame' = [prev_node |-> P0.prev_node, prev_block_dag |-> P0.block_dag]
    /\ todo' = dag.ops
    /\ pc' = "pad"
    /\ property_set' = pad'.property_set
    /\ sched' = [sched EXCEPT !.node_start_time = pad'.property_set.node_start_time]
    /\ UNCHANGED <<durations, calls, dag, scheduler, dd_qubits, run_no, groups, first>>

\* BlockBasePadder.run up to the loop of the top-level _visit_block:
\* _pre_runhook, _init_run and the head of _visit_block.
PadInit ==
    /\ pc \in {"scheduled", "transformed"}
    /\ property_set.has_node_start_time
    /\ LET P0 == Pad_init_run(pad, dag, property_set)
       IN /\ pad' = Pad_block_begin(P0, dag, TRUE)
          /\ frame' = [prev_node |-> P0.prev_node, prev_block_dag |-> P0.block_dag]
    /\ todo' = block_order_op_nodes(dag.ops)
    /\ pc' = "pad"
    /\ property_set' = pad'.property_set
    /\ sched' = [sched EXCEPT !.node_start_time = pad'.property_set.node_start_time]
    /\ UNCHANGED <<durations, calls, dag, scheduler, dd_qubits, run_no, groups, first>>

\* One iteration of the loop of the top-level _visit_block: _visit_node.
PadVisit ==
    /\ pc = "pad"
    /\ todo # <<>>
    /\ pad' = Pad_visit_node(pad, Head(todo))
    /\ todo' = Tail(todo)
    /\ pc' = IF pad'.error # "" THEN "error" ELSE "pad"
    /\ property_set' = pad'.property_set
    /\ sched' = [sched EXCEPT !.node_start_time = pad'.property_set.node_start_time]
    /\ UNCHANGED <<durations, calls, dag, scheduler, dd_qubits, run_no, frame, groups, first>>

\* The tail of the top-level _visit_block and the return of run.
PadFinish ==
    /\ pc = "pad"
    /\ todo = <<>>
    /\ pad' = Pad_block_end(pad, frame.prev_node, frame.prev_block_dag)
    /\ pc' = "done"
    /\ property_set' = pad'.property_set
    /\ sched' = [sched EXCEPT !.node_start_time = pad'.property_set.node_start_time]
    /\ first' = IF run_no = 1
                THEN [first EXCEPT !.new_dag = pad'.ret,
                                   !.node_start_time = pad'.property_set.node_start_time,
                                   !.policy = dd_qubits]
                ELSE first
    /\ UNCHANGED <<durations, calls, dag, scheduler, dd_qubits, run_no, todo, frame, groups>>

\* The pass manager runs the same pass instances over the same graph again,
\* with a fresh property set.
Rerun ==
    /\ pc = "done"
    /\ run_no = 1
    /\ run_no' = 2
    /\ pc' = "start"
    /\ property_set' = PropertySetEmpty
    /\ UNCHANGED <<durations, calls, dag, scheduler, dd_qubits, todo, sched, pad, frame, groups, first>>

Next ==
    \/ SchedInit
    \/ SchedVisit
    \/ SchedPublish
    \/ Transform
    \/ PadInit
    \/ PadVisit
    \/ PadFinish
    \/ Rerun

Spec == Init /\ [][Next]_vars

\* ------------------------------------------------------------------ the traversal by itself

\* Operations that differ in what the traversal looks at: measurements and
\* resets, conditioned operations, and the wires that make descendants.
TraversalAlphabet ==
    { Op("gate", {Q0}, {}, {}, 1, <<>>),
      Op("gate", {Q1}, {}, {}, 2, <<>>),
      Op("gate", {Q0, Q1}, {}, {}, 3, <<>>),
      Op("measure", {Q0}, {C0}, {}, 4, <<>>),
      Op("measure", {Q1}, {C1b}, {}, 2, <<>>),
      Op("reset", {Q0}, {}, {}, 5, <<>>),
      Op("gate", {Q1}, {}, {C0}, 2, <<>>) }

TraversalDags ==
    { MkDag({Q0, Q1}, {C0, C1b}, (Q0 :> 4) @@ (Q1 :> 2), 1, ops) :
        ops \in UNION {[1..n -> TraversalAlphabet] : n \in 0..TraversalLen} }

InitTraversal ==
    /\ dag \in TraversalDags
    /\ scheduler = "ASAPScheduleAnalysis"
    /\ dd_qubits = {}
    /\ pc = "start"
    /\ run_no = 1
    /\ todo = <<>>
    /\ sched = ASAP_new
    /\ pad = Pad_new(dd_qubits)
    /\ frame = [prev_node |-> NoNode, prev_block_dag |-> NoDag]
    /\ property_set = PropertySetEmpty
    /\ groups = {}
    /\ first = FirstNone
    /\ durations = Dur_new(TRUE)
    /\ calls = NoCalls

\* list(block_order_op_nodes(dag)): the generator run to its end.
Traverse ==
    /\ pc = "start"
    /\ todo' = block_order_op_nodes(dag.ops)
    /\ pc' = "traversed"
    /\ UNCHANGED <<durations, calls, dag, scheduler, dd_qubits, run_no, sched, pad, frame, property_set,
                   groups, first>>

NextTraversal == Traverse

SpecTraversal == InitTraversal /\ [][NextTraversal]_vars

\* ------------------------------------------------------------------ the instruction durations by themselves

\* Entries for measurement and reset, by name, by qubit and by qubit and
\* parameter, in the unit dt and in seconds.
Entries ==
    [name : {"measure", "reset"},
     qubits : {None, <<0>>},
     duration : {100, 300},
     parameters : {None},
     unit : {"dt", "s"}]
    \cup
    [name : {"measure", "reset"},
     qubits : {<<0>>},
     duration : {100},
     parameters : {<<1>>},
     unit : {"dt"}]

UpdateLists == UNION {[1..n -> Entries] : n \in 1..MaxUpdateLen}

InitDurations ==
    /\ dag = GHZ4
    /\ scheduler = "ASAPScheduleAnalysis"
    /\ dd_qubits = {}
    /\ pc = "start"
    /\ run_no = 1
    /\ todo = <<>>
    /\ sched = ASAP_new
    /\ pad = Pad_new(dd_qubits)
    /\ frame = [prev_node |-> NoNode, prev_block_dag |-> NoDag]
    /\ property_set = PropertySetEmpty
    /\ groups = {}
    /\ first = FirstNone
    /\ \E enable_patching \in BOOLEAN : durations = Dur_new(enable_patching)
    /\ calls = NoCalls

\* DynamicCircuitInstructionDurations.update with a list of entries.
Update ==
    /\ calls.n < MaxUpdates
    /\ \E inst_durations \in UpdateLists :
          /\ durations' = Dur_update(durations, inst_durations)
          /\ calls' = [n |-> calls.n + 1, inst_durations |-> inst_durations]
    /\ UNCHANGED pass_vars

NextDurations == Update

SpecDurations == InitDurations /\ [][NextDurations]_vars

\* ------------------------------------------------------------------ composing padding passes

\* BlockBasePadder.run of a fresh pass whose policy decouples policy_qubits.
Pad_run(policy_qubits, d, ps) ==
    Pad_visit_block(Pad_init_run(Pad_new(policy_qubits), d, ps), d, TRUE)

\* The key a topological sort of the graph orders ready nodes by: the
\* qubits of the node.
sort_key(node) ==
    LET qs == SetToSeq(node.qargs)
    IN IF qs = <<>> THEN 0 - 1
       ELSE 100 * qs[1][2] + (IF Len(qs) > 1 THEN qs[2][2] + 1 ELSE 0)

\* A topological order of the nodes a graph holds that takes, among the
\* nodes whose predecessors are out, the one of least key first.
RECURSIVE lexicographical_topological_sort(_, _, _)
lexicographical_topological_sort(nodes, done, out) ==
    IF Len(out) = Len(nodes) THEN out
    ELSE LET ready == {i \in 1..Len(nodes) \ done :
                          \A j \in 1..(i - 1) :
                              Wires(nodes[j]) \cap Wires(nodes[i]) # {} => j \in done}
             pick == CHOOSE i \in ready :
                         \A j \in ready :
                             \/ sort_key(nodes[i]) < sort_key(nodes[j])
                             \/ sort_key(nodes[i]) = sort_key(nodes[j]) /\ i <= j
         IN lexicographical_topological_sort(nodes, done \cup {pick}, Append(out, pick))

\* The orders in which the next pass may find the nodes of a returned graph:
\* the order they were applied in, and the sorted topological order.
NodeOrders(g) ==
    {[k \in 1..Len(g.nodes) |-> k], lexicographical_topological_sort(g.nodes, {}, <<>>)}

\* The graph a pass returned, as the next pass receives it: its nodes in
\* topological order, each known by its index in that graph.
AsDag(g, d, order) ==
    [qubits |-> g.qubits, clbits |-> g.clbits,
     ops |-> [k \in 1..Len(order) |->
                 [id |-> <<g.nodes[order[k]].dag, g.nodes[order[k]].nid>>,
                  kind |-> g.nodes[order[k]].kind,
                  qargs |-> g.nodes[order[k]].qargs,
                  cargs |-> g.nodes[order[k]].cargs,
                  cond |-> g.nodes[order[k]].cond,
                  duration |-> g.nodes[order[k]].duration,
                  blocks |-> <<>>]],
     mdur |-> d.mdur, ddur |-> d.ddur, physical |-> TRUE]

\* The property set a pass manager holds once the scheduler has published.
Published(schedule) ==
    [PropertySetEmpty EXCEPT !.has_node_start_time = TRUE, !.node_start_time = schedule]

\* Graphs the scheduler of this repository schedules.
ComposeDags == {d \in Dags : ~HasControlFlow(d)}

InitCompose ==
    /\ dag \in ComposeDags
    /\ scheduler = "ASAPScheduleAnalysis"
    /\ dd_qubits = {}
    /\ pc = "start"
    /\ run_no = 1
    /\ todo = <<>>
    /\ sched = ASAP_new
    /\ pad = Pad_new(dd_qubits)
    /\ frame = [prev_node |-> NoNode, prev_block_dag |-> NoDag]
    /\ property_set = PropertySetEmpty
    /\ groups = {}
    /\ first = FirstNone
    /\ durations = Dur_new(TRUE)
    /\ calls = NoCalls

\* One pass manager: the scheduler, then one padding pass over the wires U.
ComposeUnion ==
    /\ pc = "scheduled"
    /\ \E U \in SUBSET dag.qubits :
          /\ dd_qubits' = U
          /\ pad' = Pad_run(U, dag, property_set)
    /\ first' = [first EXCEPT !.new_dag = pad'.ret,
                              !.node_start_time = pad'.property_set.node_start_time,
                              !.policy = dd_qubits']
    /\ property_set' = pad'.property_set
    /\ pc' = IF pad'.error # "" THEN "error" ELSE "union"
    /\ UNCHANGED <<durations, calls, dag, scheduler, run_no, todo, sched, frame, groups>>

\* Another pass manager: the same schedule, then a padding pass over A.
ComposeFirst ==
    /\ pc = "union"
    /\ \E A \in SUBSET first.policy :
          /\ dd_qubits' = A
          /\ pad' = Pad_run(A, dag, Published(first.schedule))
    /\ property_set' = pad'.property_set
    /\ pc' = IF pad'.error # "" THEN "error" ELSE "first"
    /\ UNCHANGED <<durations, calls, dag, scheduler, run_no, todo, sched, frame, groups, first>>

\* Its next pass: a padding pass over the remaining wires B, on the graph
\* and the schedule map the pass over A left.
ComposeSecond ==
    /\ pc = "first"
    /\ dd_qubits' = first.policy \ dd_qubits
    /\ \E order \in NodeOrders(pad.ret) :
          pad' = Pad_run(dd_qubits', AsDag(pad.ret, dag, order), property_set)
    /\ property_set' = pad'.property_set
    /\ pc' = "second"
    /\ UNCHANGED <<durations, calls, dag, scheduler, run_no, todo, sched, frame, groups, first>>

NextCompose ==
    \/ SchedInit
    \/ SchedVisit
    \/ SchedPublish
    \/ ComposeUnion
    \/ ComposeFirst
    \/ ComposeSecond

SpecCompose == InitCompose /\ [][NextCompose]_vars

\* What a padded graph is up to the order its nodes were applied in: the
\* operations along each wire.
Canon(g) ==
    [w \in g.qubits \cup g.clbits |->
        LET on == SelectSeq([k \in 1..Len(g.nodes) |-> k],
                            LAMBDA k : w \in g.nodes[k].qargs \cup g.nodes[k].cargs
                                            \cup g.nodes[k].cond)
        IN [i \in 1..Len(on) |->
               [kind |-> g.nodes[on[i]].kind, qargs |-> g.nodes[on[i]].qargs,
                cargs |-> g.nodes[on[i]].cargs, cond |-> g.nodes[on[i]].cond,
                duration |-> g.nodes[on[i]].duration]]]

\* ------------------------------------------------------------------ the schedule map

\* The duration an operation looks up for itself: a measurement the measure
\* duration of its own qubits, any other operation its own duration.
own_duration(d, node) ==
    IF IsMeasure(node) THEN measure_duration(d, node.qargs) ELSE node.duration

SchedulePublished == pc = "scheduled" /\ scheduler = "ASAPScheduleAnalysis"

\* n1 precedes n2 on a wire they share.
PrecedesOnWire(i, j) == i < j /\ Wires(dag.ops[i]) \cap Wires(dag.ops[j]) # {}

\* C1: in the published schedule map two nodes that share a wire, the first
\* before the second in dependency order, are in non-decreasing blocks, and
\* in the same block the first ends (start plus its own duration) no later
\* than the second starts.
C1_WireOrderRespected ==
    SchedulePublished =>
        \A i, j \in 1..Len(dag.ops) :
            PrecedesOnWire(i, j) =>
                LET n1 == sched.node_start_time[dag.ops[i].id]
                    n2 == sched.node_start_time[dag.ops[j].id]
                IN /\ n1[1] <= n2[1]
                   /\ n1[1] = n2[1] => n1[2] + own_duration(dag, dag.ops[i]) <= n2[2]

\* C2: when the scheduler has finished, the measurements and resets that
\* were together in one pending group start at the same time of the same
\* block, also when a later member raised the aligned start.
C2_GroupAligned ==
    pc = "scheduled" =>
        \A g \in groups : \A m1, m2 \in g.members :
            sched.node_start_time[m1] = sched.node_start_time[m2]

\* A published schedule in which a pending group grew and its aligned start
\* rose with the new member.
C2_GroupRealigned ==
    /\ pc = "scheduled"
    /\ \E g1, g2 \in groups :
          /\ g1.block = g2.block
          /\ g1.members \subseteq g2.members
          /\ g1.members # g2.members
          /\ g1.start < g2.start
          /\ \A m \in g1.members : sched.node_start_time[m] = <<g2.block, g2.start>>

\* ------------------------------------------------------------------ the padded graph

Padded == pc = "done" /\ pad.error = ""

\* What run returns, and where the pass registered each node of it.
OutNodes == pad.ret.nodes

OutStart(n) == property_set.node_start_time[<<n.dag, n.nid>>]

\* Bit-conditioned and nested-block operations count as zero duration.
OutDuration(n) == IF n.cond # {} \/ IsControlFlowOp(n) THEN 0 ELSE n.duration

OutEnd(n) == OutStart(n)[2] + OutDuration(n)

\* Positions of the nodes of block b on wire q, in the order of the graph.
OnWire(b, q) ==
    SelectSeq([k \in 1..Len(OutNodes) |-> k],
              LAMBDA k : OutStart(OutNodes[k])[1] = b /\ q \in OutNodes[k].qargs)

BlockTotal(b) ==
    Max({0} \cup {OutEnd(OutNodes[k]) : k \in {j \in 1..Len(OutNodes) :
                                                OutStart(OutNodes[j])[1] = b}})

OutBlocks == {OutStart(OutNodes[k])[1] : k \in 1..Len(OutNodes)}

WireFilled(b, q) ==
    LET on == OnWire(b, q)
    IN /\ SumSeq([i \in 1..Len(on) |-> OutDuration(OutNodes[on[i]])]) = BlockTotal(b)
       /\ \A i \in 1..Len(on) :
             OutStart(OutNodes[on[i]])[2] =
                 IF i = 1 THEN 0 ELSE OutEnd(OutNodes[on[i - 1]])

\* C3: with a policy that fills each interval exactly, every quantum wire of
\* the padded graph is occupied throughout each block: the durations on the
\* wire add up to the block's total duration, each instruction starting
\* where the one before it on the wire ended.
C3_WiresContinuouslyOccupied ==
    Padded /\ scheduler = "ASAPScheduleAnalysis" =>
        \A b \in OutBlocks : \A q \in pad.ret.qubits : WireFilled(b, q)

\* C4: the scheduler and the padder run a second time, on the same pass
\* instances and the same graph, publish the schedule map of the first run
\* and return a padded graph identical to the first, registered at the same
\* times: nothing the first run left behind reaches the second.
C4_Reproducible ==
    /\ run_no = 2 /\ pc = "scheduled" => sched.node_start_time = first.schedule
    /\ run_no = 2 /\ pc = "done" =>
          /\ pad.ret = first.new_dag
          /\ property_set.node_start_time = first.node_start_time

\* A second run that finished on a graph of several blocks which the padder
\* filled and fenced.
C4_SecondRunDone ==
    /\ run_no = 2
    /\ Padded
    /\ pad.current_block_idx > 0
    /\ \E k \in 1..Len(OutNodes) : OutNodes[k].src = "pad"
    /\ \E k \in 1..Len(OutNodes) : OutNodes[k].src = "sync"

GatesOn(nodes, q) ==
    Cardinality({k \in 1..Len(nodes) : nodes[k].kind = "gate" /\ nodes[k].qargs = {q}})

LastWriter(g, bit) ==
    LET writers == {k \in 1..Len(g.nodes) : bit \in g.nodes[k].cargs}
    IN IF writers = {} THEN NoNode ELSE g.nodes[Max(writers)]

\* Every conditioning bit was last written, in the block graph, by a
\* measurement of exactly the wires of the node.
MeasuredOnOwnWires(g, node) ==
    \A bit \in node.cond :
        /\ LastWriter(g, bit).kind = "measure"
        /\ LastWriter(g, bit).qargs = node.qargs

\* Every nested instruction is a gate or an idle-fill that is neither
\* conditioned nor nested.
PlainContents(node) ==
    \A b \in 1..Len(node.blocks) : \A k \in 1..Len(node.blocks[b]) :
        /\ node.blocks[b][k].kind \in {"gate", "delay"}
        /\ node.blocks[b][k].cond = {}
        /\ node.blocks[b][k].blocks = <<>>

\* C6: the padder puts a bit-conditioned nested-block node in the fast-path
\* set exactly when every conditioning bit was last written by a measurement
\* on the node's own wires that is in the current output block graph, and
\* the nested blocks hold only plain gates and idle-fill.
C6_FastPathIff ==
    \A i \in 1..Len(pad.fast_path_calls) :
        LET call == pad.fast_path_calls[i]
        IN call.fast <=> MeasuredOnOwnWires(call.block_dag, call.node)
                            /\ PlainContents(call.node)

\* The rebuilt node of a fast-path node in the returned graph.
IsFastPathOut(k) ==
    /\ OutNodes[k].src = "op"
    /\ IsControlFlowOp(OutNodes[k])
    /\ OutNodes[k].from \in pad.fast_path_nodes

\* The node before position k on wire q of the returned graph.
WirePredecessor(k, q) ==
    LET before == {j \in 1..(k - 1) : q \in OutNodes[j].qargs}
    IN IF before = {} THEN NoNode ELSE OutNodes[Max(before)]

IsSyncMarker(n) == n.kind = "barrier" /\ n.src = "sync"

\* C7: in the padded graph no fast-path node has a synchronization marker
\* immediately before it: what precedes it on each of its wires, back to the
\* measurement it is conditioned on, is not a marker the padder inserted.
C7_NoMarkerBeforeFastPath ==
    Padded =>
        \A k \in 1..Len(OutNodes) :
            IsFastPathOut(k) =>
                \A q \in OutNodes[k].qargs : ~IsSyncMarker(WirePredecessor(k, q))

\* ------------------------------------------------------------------ synchronization markers

\* The visit of the top-level loop that is about to happen, and its node.
Visiting == pc = "pad" /\ todo # <<>>

Scheduled(n) == n.id \in DOMAIN pad.node_start_time

\* The visit crosses into a higher block, or is the visit of a nested-block
\* node whose blocks were scheduled.
CrossesBlock(n) ==
    /\ ~IsControlFlowOp(n)
    /\ Scheduled(n)
    /\ pad.node_start_time[n.id][1] > pad.current_block_idx

VisitsNestedBlocks(n) == IsControlFlowOp(n) /\ Scheduled(n) /\ pad.node_block_dags

\* A barrier or nested-block node over as many qubits as the graph has.
FullWidth(n) ==
    /\ n.kind \in {"barrier", "if_else", "for_loop"}
    /\ Cardinality(n.qargs) = Cardinality(pad.block_dag.qubits)

\* The four cases in which the marker is left out.
MarkerOmitted(prev, n, fast_path_nodes) ==
    \/ prev = NoNode
    \/ IsControlFlowOp(prev) /\ IsControlFlowOp(n)
    \/ FullWidth(prev) \/ FullWidth(n)
    \/ n.id \in fast_path_nodes

\* The step put a marker into the current graph, ahead of everything else it
\* put there for the node apart from the fill that closes the block.
MarkerInserted(old, new, n) ==
    \E k \in (Len(old) + 1)..Len(new) :
        /\ IsSyncMarker(new[k])
        /\ \A j \in (Len(old) + 1)..(k - 1) : new[j].src = "pad"
        /\ \A j \in (k + 1)..Len(new) : ~IsSyncMarker(new[j])

\* C8: a visit that crosses into a higher block, or the visit of a
\* nested-block node, inserts a full-width marker before the node unless
\* there is no previous node, both nodes are nested-block nodes, one of them
\* is a full-width barrier or nested-block node, or the node is on the fast
\* path; in exactly those cases it inserts none.
C8_MarkerRule ==
    [][ (Visiting /\ (CrossesBlock(Head(todo)) \/ VisitsNestedBlocks(Head(todo)))
            /\ pad'.error = "")
        => (MarkerInserted(pad.block_dag.nodes, pad'.block_dag.nodes, Head(todo))
              <=> ~MarkerOmitted(pad.prev_node, Head(todo), pad'.fast_path_nodes)) ]_vars

\* The padder has inserted a marker at one visit and left it out, though
\* there was a previous node, at another.
C8_MarkerInsertedAndOmitted ==
    /\ pc = "pad"
    /\ \E i, j \in 1..Len(pad.barrier_calls) :
          /\ pad.barrier_calls[i].dag = pad.block_dag.id
          /\ pad.barrier_calls[j].dag = pad.block_dag.id
          /\ ~pad.barrier_calls[i].force /\ pad.barrier_calls[i].added
          /\ ~pad.barrier_calls[j].force /\ ~pad.barrier_calls[j].added
          /\ pad.barrier_calls[j].prev_node # <<>>

\* C9: the graph the padder returns for a top-level graph that holds
\* operations ends with exactly one full-width synchronization marker, after
\* the fill that closes the last block.
C9_EndsWithOneMarker ==
    Padded /\ dag.ops # <<>> =>
        /\ OutNodes # <<>>
        /\ IsSyncMarker(OutNodes[Len(OutNodes)])
        /\ OutNodes[Len(OutNodes)].qargs = pad.ret.qubits
        /\ Len(OutNodes) > 1 => ~IsSyncMarker(OutNodes[Len(OutNodes) - 1])

\* ------------------------------------------------------------------ policy invocations

\* The visit is that of a generic instruction.
VisitsGeneric(n) == ~IsControlFlowOp(n) /\ ~IsDelay(n) /\ Scheduled(n)

\* When the wire was last occupied, as the visit of n finds it: a block that
\* the visit terminates first leaves every wire idle from 0.
IdleAfter(n, q) ==
    IF CrossesBlock(n) THEN 0
    ELSE IF q \in DOMAIN pad.idle_after THEN pad.idle_after[q] ELSE 0

\* The invocations of the policy a step made for the instruction it visited.
GenericCalls(old, new) ==
    {k \in (Len(old) + 1)..Len(new) : new[k].origin = "generic"}

\* The policy was invoked for wire q of n, once, with the interval from the
\* wire's idle time to the start of n.
InvokedFor(old, new, n, q) ==
    \E k \in GenericCalls(old, new) :
        /\ new[k].qubit = q
        /\ new[k].t_start = IdleAfter(n, q)
        /\ new[k].t_end = pad.node_start_time[n.id][2]
        /\ new[k].next_node = n.id
        /\ \A j \in GenericCalls(old, new) : new[j].qubit = q => j = k

\* The intervals the policy was asked to fill ahead of the instructions of
\* the graph, per wire.
GenericFills ==
    {<<pad.pad_calls[k].qubit, pad.pad_calls[k].t_start, pad.pad_calls[k].t_end>> :
        k \in {j \in 1..Len(pad.pad_calls) : pad.pad_calls[j].origin = "generic"}}

\* C10: visiting a generic instruction, the padder invokes the policy for a
\* wire of the instruction, with the interval from the wire's idle time to
\* the start time and before the instruction is appended, exactly when the
\* start time is later than the idle time; no invocation, of any origin, has
\* an empty or negative interval; for the chain of four qubits the fills before the
\* two-qubit gates are 50 on wire 1, 750 on wire 2 and 950 on wire 3.
C10_PolicyInvokedForGaps ==
    /\ [][ (Visiting /\ VisitsGeneric(Head(todo)) /\ pad'.error = "")
           => /\ \A q \in Head(todo).qargs :
                    InvokedFor(pad.pad_calls, pad'.pad_calls, Head(todo), q)
                        <=> pad.node_start_time[Head(todo).id][2] > IdleAfter(Head(todo), q)
              /\ \A k \in GenericCalls(pad.pad_calls, pad'.pad_calls) :
                    /\ pad'.pad_calls[k].qubit \in Head(todo).qargs
                    /\ pad'.pad_calls[k].t_start < pad'.pad_calls[k].t_end
              /\ LastNode(pad').from = Head(todo).id ]_vars
    /\ [](\A k \in 1..Len(pad.pad_calls) :
            pad.pad_calls[k].t_start < pad.pad_calls[k].t_end)
    /\ [](Padded /\ dag = GHZ4 =>
            GenericFills = {<<Q(1), 0, 50>>, <<Q(2), 0, 750>>, <<Q(3), 0, 950>>})

\* The chain of four qubits has been padded, the fill of 950 on wire 3
\* included.
C10_ChainPadded ==
    /\ Padded
    /\ dag = GHZ4
    /\ <<Q(3), 0, 950>> \in GenericFills

\* ------------------------------------------------------------------ conditional blocks

\* The graph holds two conditioned operations, each conditioned on a
\* measurement taken for it, with unconditioned work on an unrelated wire
\* between them.
TwoFreshConditionals(d) ==
    \E m1, c1, w, m2, c2 \in 1..Len(d.ops) :
        /\ m1 < c1 /\ c1 < w /\ w < m2 /\ m2 < c2
        /\ IsMeasure(d.ops[m1]) /\ IsMeasure(d.ops[m2])
        /\ d.ops[c1].cond # {} /\ d.ops[c1].cond \subseteq d.ops[m1].cargs
        /\ d.ops[c2].cond # {} /\ d.ops[c2].cond \subseteq d.ops[m2].cargs
        /\ d.ops[w].cond = {} /\ ~IsControlFlowOp(d.ops[w])
        /\ d.ops[w].qargs \cap (d.ops[m1].qargs \cup d.ops[c1].qargs
                                \cup d.ops[m2].qargs \cup d.ops[c2].qargs) = {}

\* The block the scheduler gave the instruction an output node was copied from.
OpBlock(n) == pad.node_start_time[n.from][1]

\* Between two copied instructions of different blocks the output holds a
\* synchronization marker.
MarkerAtEveryBoundary ==
    \A i, j \in 1..Len(OutNodes) :
        (/\ i < j
         /\ OutNodes[i].src = "op" /\ OutNodes[j].src = "op"
         /\ OpBlock(OutNodes[i]) # OpBlock(OutNodes[j]))
        => \E k \in (i + 1)..(j - 1) : IsSyncMarker(OutNodes[k])

ScheduledBlocks ==
    {property_set.node_start_time[id][1] : id \in DOMAIN property_set.node_start_time}

\* C11: for a graph with two conditioned operations, each conditioned on a
\* fresh measurement, with unconditioned work on an unrelated wire in between
\* (and for the circuit of test_dd_c_if), the published schedule uses at least
\* three distinct block indices and the padded graph holds a synchronization
\* marker between any two instructions of different blocks.
C11_ThreeBlocksWithMarkers ==
    (TwoFreshConditionals(dag) \/ dag = DDCIf) =>
        /\ SchedulePublished => Cardinality(ScheduledBlocks) >= 3
        /\ Padded => MarkerAtEveryBoundary

\* Such a graph has been padded and its output holds markers.
C11_ConditionalsPadded ==
    /\ Padded
    /\ TwoFreshConditionals(dag)
    /\ Cardinality({k \in 1..Len(OutNodes) : IsSyncMarker(OutNodes[k])}) >= 3

\* ------------------------------------------------------------------ failing runs

\* The scheduler run has failed on an instruction without a duration.
DurationError == pc = "error" /\ sched.error = "Duration is not found"

VisitsUnscheduled == Visiting /\ Head(todo).id \notin DOMAIN pad.node_start_time

\* C13: when the padder visits an operation node that is absent from the
\* schedule map, be it a generic instruction, an idle-fill instruction or a
\* nested-block node, the run fails with the error that reports the
\* operation as added after the circuit was scheduled.
C13_UnscheduledNodeError ==
    [][ VisitsUnscheduled
        => /\ pc' = "error"
           /\ pad'.error = "Operation is likely added after the circuit is scheduled." ]_vars

\* ------------------------------------------------------------------ conditioned operations

\* The recognized conditionable kinds: gates and delays.
Conditionable(n) == n.kind \in {"gate", "delay"}

\* ASAPScheduleAnalysis visits a bit-conditioned operation next.
SchedulesConditioned ==
    /\ pc = "schedule" /\ todo # <<>>
    /\ scheduler = "ASAPScheduleAnalysis"
    /\ Head(todo).cond # {}

\* The visit took the conditional transition: the node is in a conditional
\* block, one opened for it unless one was open, and starts once its qubits
\* are idle and its condition bits are readable.
ConditionalTransition(n) ==
    /\ pc' = "schedule"
    /\ sched'.conditional_block
    /\ sched'.current_block_idx =
           IF sched.conditional_block THEN sched.current_block_idx
           ELSE sched.current_block_idx + 1
    /\ n.id \in DOMAIN sched'.node_start_time
    /\ sched'.node_start_time[n.id] =
           << sched'.current_block_idx,
              IF sched.conditional_block
              THEN Max({sched.idle_after[b][2] : b \in n.qargs \cup n.cond})
              ELSE 0 >>
    /\ \A b \in n.cond : sched'.idle_after[b][2] = sched'.node_start_time[n.id][2]

\* C14: the scheduler refuses every bit-conditioned operation whose kind is
\* not conditionable, with an error and without publishing a schedule, and
\* schedules every bit-conditioned operation of a conditionable kind through
\* the conditional transition.
C14_ConditionedKinds ==
    /\ [][ SchedulesConditioned =>
            IF Conditionable(Head(todo))
            THEN DurationKnown(Head(todo)) => ConditionalTransition(Head(todo))
            ELSE /\ pc' = "error"
                 /\ sched'.error = "Conditional instruction is not supported in ASAP scheduler."
                 /\ Head(todo).id \notin DOMAIN sched'.node_start_time
                 /\ property_set' = property_set ]_vars
    /\ [](pc = "error" /\ sched.error # "" => ~property_set.has_node_start_time)

\* Both cases have happened in one run: a conditioned gate or delay was
\* scheduled in a conditional block, then a conditioned operation of
\* another kind was refused.
C14_ScheduledThenRefused ==
    /\ pc = "error"
    /\ sched.error = "Conditional instruction is not supported in ASAP scheduler."
    /\ \E i \in 1..Len(dag.ops) :
          /\ dag.ops[i].cond # {}
          /\ dag.ops[i].id \in DOMAIN sched.node_start_time

\* ------------------------------------------------------------------ the rewritten schedule map

\* The key of an output node in the schedule map.
OutKey(n) == <<n.dag, n.nid>>

\* The keys of the nodes of the input graph: its operation nodes and
\* whatever the scheduler had registered for it.
InputKeys == {dag.ops[i].id : i \in 1..Len(dag.ops)} \cup DOMAIN pad.node_start_time

\* C15: after a padder run the shared schedule map holds an entry for
\* every operation node of the top-level output graph (copied instructions,
\* rebuilt nested-block nodes, inserted markers, idle-fill) and no entry
\* keyed by a node of the input graph.
C15_MapOfOutputNodes ==
    Padded =>
        /\ \A k \in 1..Len(OutNodes) :
              OutKey(OutNodes[k]) \in DOMAIN property_set.node_start_time
        /\ InputKeys \cap DOMAIN property_set.node_start_time = {}

\* A padded graph that holds a copied instruction, a rebuilt nested-block
\* node, an inserted marker and an idle-fill.
C15_AllKindsOfOutputNodes ==
    /\ Padded
    /\ \E k \in 1..Len(OutNodes) : OutNodes[k].src = "op" /\ ~IsControlFlowOp(OutNodes[k])
    /\ \E k \in 1..Len(OutNodes) : IsControlFlowOp(OutNodes[k])
    /\ \E k \in 1..Len(OutNodes) : IsSyncMarker(OutNodes[k])
    /\ \E k \in 1..Len(OutNodes) : OutNodes[k].src = "pad"

\* ------------------------------------------------------------------ the order of the traversal

\* The position in the graph of the k-th node the traversal yielded.
Yielded(k) == todo[k].id[1]

\* C16: the block-order traversal of an operation graph ends and yields
\* every operation node exactly once, no node before one of its ancestors.
C16_LinearExtension ==
    pc = "traversed" =>
        /\ Len(todo) = Len(dag.ops)
        /\ \A i \in 1..Len(dag.ops) : \E k \in 1..Len(todo) : todo[k] = dag.ops[i]
        /\ \A a, b \in 1..Len(todo) :
              a < b => Yielded(a) \notin Descendants(dag.ops, Yielded(b))

\* A traversal that did not keep the order of the graph: it yielded a later
\* node of the graph before an earlier one.
C16_Reordered ==
    /\ pc = "traversed"
    /\ Len(todo) = TraversalLen
    /\ \E a, b \in 1..Len(todo) : a < b /\ Yielded(a) > Yielded(b)

\* ------------------------------------------------------------------ conditional and plain blocks

\* The scheduler is running or has published, and the map is still its own.
Scheduling == pc \in {"schedule", "scheduled"} /\ scheduler = "ASAPScheduleAnalysis"

\* The operations of the graph the scheduler has registered so far.
Registered == {i \in 1..Len(dag.ops) : dag.ops[i].id \in DOMAIN sched.node_start_time}

\* C17: in every schedule of the scheduler no block index is shared by a
\* bit-conditioned and an unconditioned operation; a conditioned operation
\* met outside a conditional block opens a new block, and so does the first
\* unconditioned operation after a conditional block.
C17_BlocksNotMixed ==
    /\ [](Scheduling =>
            \A i, j \in Registered :
                dag.ops[i].cond # {} /\ dag.ops[j].cond = {}
                => sched.node_start_time[dag.ops[i].id][1]
                       # sched.node_start_time[dag.ops[j].id][1])
    /\ [][ (Scheduling /\ pc = "schedule" /\ todo # <<>> /\ pc' = "schedule"
            /\ (Head(todo).cond # {}) # sched.conditional_block)
           => /\ sched'.current_block_idx = sched.current_block_idx + 1
              /\ sched'.node_start_time[Head(todo).id][1] = sched'.current_block_idx
              /\ sched'.conditional_block = (Head(todo).cond # {}) ]_vars

\* A published schedule with a conditional block between two plain ones.
C17_PlainConditionalPlain ==
    /\ Scheduling
    /\ pc = "scheduled"
    /\ \E i, j, k \in Registered :
          /\ dag.ops[i].cond = {} /\ dag.ops[j].cond # {} /\ dag.ops[k].cond = {}
          /\ sched.node_start_time[dag.ops[i].id][1] < sched.node_start_time[dag.ops[j].id][1]
          /\ sched.node_start_time[dag.ops[j].id][1] < sched.node_start_time[dag.ops[k].id][1]

\* ------------------------------------------------------------------ patched durations

\* An update has returned without raising.
Updated == calls.n > 0 /\ durations.error = ""

\* The entry of the last update that was supplied last for a key.
LastSupplied(key) ==
    LET items == calls.inst_durations
    IN items[Max({i \in 1..Len(items) : InstrKey(items[i]) = key})]

Stored(key) == Dur_get_duration_dt(durations, key)

\* C18: after a bulk update with patching enabled every measurement entry
\* of the update is stored with the supplied duration plus 160, added once,
\* whatever the order or repetition of the entries; with patching disabled
\* the stored durations are the supplied ones.
C18_MeasurePatchedOnce ==
    Updated =>
        \A i \in 1..Len(calls.inst_durations) :
            LET key == InstrKey(calls.inst_durations[i])
            IN key[1] = "measure" =>
                  /\ Dur_has(durations, key)
                  /\ Stored(key) =
                        << LastSupplied(key).duration
                               + (IF durations.enable_patching
                                  THEN MEASURE_PATCH_CYCLES ELSE 0),
                           LastSupplied(key).unit >>

\* The reset keys the last update touched: those of its reset entries and
\* those patched along with its measurement entries.
TouchedResetKeys ==
    {<<"reset", InstrKey(calls.inst_durations[i])[2], InstrKey(calls.inst_durations[i])[3]>> :
        i \in 1..Len(calls.inst_durations)}

MeasureKey(key) == <<"measure", key[2], key[3]>>

\* C19: after any sequence of bulk updates with patching enabled, every
\* reset key an update touched has the stored (patched) duration of the
\* measurement with the same qubits and parameters if there is one, in
\* whatever order the two were supplied, and otherwise its supplied duration
\* plus 160.
C19_ResetFollowsMeasure ==
    Updated /\ durations.enable_patching =>
        \A key \in TouchedResetKeys :
            /\ Dur_has(durations, key)
            /\ Stored(key) =
                  IF Dur_has(durations, MeasureKey(key))
                  THEN Stored(MeasureKey(key))
                  ELSE <<LastSupplied(key).duration + MEASURE_PATCH_CYCLES, "dt">>

\* C20: every patch of a measurement or reset duration whose stored unit
\* is not "dt" fails with an error: the patcher writes no measurement or
\* reset entry with another unit, and overwrites none that had another unit.
C20_OnlyDtPatched ==
    calls.n > 0 =>
        \A k \in 1..Len(durations.patches) :
            /\ durations.patches[k].unit = "dt"
            /\ durations.patches[k].before # None => durations.patches[k].before[2] = "dt"

\* ------------------------------------------------------------------ nested blocks

\* The graph the top-level loop of the padder is building, and when run has
\* returned, the graph it returned.
OutGraph == IF pc = "done" THEN pad.ret ELSE pad.block_dag

\* Positions of the rebuilt nested-block nodes of a graph.
Rebuilt(g) ==
    {k \in 1..Len(g.nodes) : g.nodes[k].src = "op" /\ IsControlFlowOp(g.nodes[k])}

\* The node of the input graph an output node was made from.
InputNode(n) == dag.ops[n.from[1]]

\* When the wire q of a padded sub-block graph is occupied last.
SubEnd(sub, q) ==
    Max({0} \cup {OutEnd(sub.nodes[k]) :
                    k \in {j \in 1..Len(sub.nodes) : q \in sub.nodes[j].qargs}})

\* The padded sub-block graph has the wires W, everything in it is on them,
\* and each of them is occupied up to the end of the last operation of the
\* sub-block.
PaddedOver(sub, W) ==
    /\ sub.qubits = W
    /\ \A k \in 1..Len(sub.nodes) : sub.nodes[k].qargs \subseteq W
    /\ \A q \in W : \A k \in 1..Len(sub.nodes) :
          sub.nodes[k].src = "op" => SubEnd(sub, q) >= OutEnd(sub.nodes[k])

\* C21: a rebuilt nested-block node is attached to all quantum wires of the
\* output block graph it is put in and each of its sub-blocks is padded over
\* the wires of the root graph, unless the node is on the fast path: then it
\* keeps exactly the quantum wires of the input node and its sub-blocks are
\* padded over those wires only.
C21_RebuiltNodeWires ==
    pc \in {"pad", "done"} /\ pad.error = "" =>
        \A k \in Rebuilt(OutGraph) :
            LET n == OutGraph.nodes[k]
                W == IF n.from \in pad.fast_path_nodes THEN InputNode(n).qargs
                     ELSE dag.qubits
            IN /\ n.qargs = IF n.from \in pad.fast_path_nodes THEN InputNode(n).qargs
                            ELSE OutGraph.qubits
               /\ n.cargs = InputNode(n).cargs
               /\ Len(n.blocks) = Len(InputNode(n).blocks)
               /\ \A b \in 1..Len(n.blocks) : PaddedOver(n.blocks[b], W)

\* A returned graph with a rebuilt fast-path node on its own wire and a
\* rebuilt node off the fast path whose sub-block holds a fill on a wire the
\* input node does not have.
C21_BothKindsRebuilt ==
    /\ Padded
    /\ \E k \in Rebuilt(pad.ret) :
          /\ pad.ret.nodes[k].from \in pad.fast_path_nodes
          /\ pad.ret.nodes[k].qargs # pad.ret.qubits
    /\ \E k \in Rebuilt(pad.ret) :
          /\ pad.ret.nodes[k].from \notin pad.fast_path_nodes
          /\ \E b \in 1..Len(pad.ret.nodes[k].blocks) :
                \E j \in 1..Len(pad.ret.nodes[k].blocks[b].nodes) :
                    LET m == pad.ret.nodes[k].blocks[b].nodes[j]
                    IN m.src = "pad" /\ m.qargs \cap InputNode(pad.ret.nodes[k]).qargs = {}

\* ------------------------------------------------------------------ idle-fill of the input graph

\* The top-level delays of the input graph the schedule map holds.
InputDelays ==
    {i \in 1..Len(dag.ops) : IsDelay(dag.ops[i]) /\ dag.ops[i].id \in DOMAIN pad.node_start_time}

\* At time t of block b the wire q of the returned graph holds something the
\* padding policy put there.
Refilled(b, q, t) ==
    \E k \in 1..Len(OutNodes) :
        /\ OutNodes[k].src = "pad"
        /\ q \in OutNodes[k].qargs
        /\ OutStart(OutNodes[k])[1] = b
        /\ OutStart(OutNodes[k])[2] <= t
        /\ t < OutEnd(OutNodes[k])

\* The time the schedule map gives the delay is refilled on its wires.
DelayRefilled(i) ==
    LET at == pad.node_start_time[dag.ops[i].id]
    IN \A q \in dag.ops[i].qargs :
           \A t \in at[2]..(at[2] + dag.ops[i].duration - 1) : Refilled(at[1], q, t)

\* The visit of a delay puts no operation into the graph and leaves the
\* duration of the block of the delay at its end time or later.
DelayVisit ==
    (Visiting /\ IsDelay(Head(todo)) /\ Scheduled(Head(todo)) /\ pad'.error = "")
    => /\ \A k \in (Len(pad.block_dag.nodes) + 1)..Len(pad'.block_dag.nodes) :
             pad'.block_dag.nodes[k].src # "op"
       /\ ~CrossesBlock(Head(todo)) => pad'.block_dag = pad.block_dag
       /\ pad'.current_block_idx = pad.node_start_time[Head(todo).id][1]
       /\ pad'.block_duration >=
              pad.node_start_time[Head(todo).id][2] + Pad_get_node_duration(Head(todo))
       /\ pad'.block_duration >= IF CrossesBlock(Head(todo)) THEN 0 ELSE pad.block_duration
       /\ pad'.idle_after = IF CrossesBlock(Head(todo))
                            THEN [q \in pad.block_dag.qubits |-> 0] ELSE pad.idle_after

\* C22: an unconditioned idle-fill instruction of the input graph is never
\* copied to the padded output: its visit puts no operation into the graph,
\* closes the previous block first when its block index is higher, and
\* leaves the block's duration at its end time or later; in the returned
\* graph the time the schedule gives it is filled, on its wires, by what the
\* padding policy inserted.
C22_DelayRefilledByPolicy ==
    /\ [][DelayVisit]_vars
    /\ [](Padded =>
            /\ \A k \in 1..Len(OutNodes) : OutNodes[k].src = "op" => ~IsDelay(OutNodes[k])
            /\ \A i \in InputDelays : dag.ops[i].cond = {} => DelayRefilled(i))

\* ------------------------------------------------------------------ the marker at block close

\* The top-level loop has ended and the node it visited last is on the fast
\* path.
ClosesAfterFastPath ==
    /\ pc = "pad"
    /\ todo = <<>>
    /\ pad.prev_node # NoNode
    /\ pad.prev_node.id \in pad.fast_path_nodes

\* The calls for a marker made at the visit of node id, none of them forced.
InlineCalls(id) ==
    {k \in 1..Len(pad.barrier_calls) :
        pad.barrier_calls[k].current_node = id /\ ~pad.barrier_calls[k].force}

\* C23: when the node visited last in a block graph is a fast-path node, the
\* close of the block appends one full-width synchronization marker as the
\* last node of the graph, after the fill that closes the block, although
\* the visit of that node inserted no marker.
C23_ForcedMarkerAtClose ==
    [][ ClosesAfterFastPath =>
          LET old == pad.block_dag.nodes
              new == pad'.ret.nodes
          IN /\ pad'.error = ""
             /\ Len(new) > Len(old)
             /\ SubSeq(new, 1, Len(old)) = old
             /\ IsSyncMarker(new[Len(new)])
             /\ new[Len(new)].qargs = pad'.ret.qubits
             /\ \A k \in (Len(old) + 1)..(Len(new) - 1) : new[k].src = "pad"
             /\ InlineCalls(pad.prev_node.id) # {}
             /\ \A k \in InlineCalls(pad.prev_node.id) : ~pad.barrier_calls[k].added
             /\ pad'.barrier_calls[Len(pad'.barrier_calls)].force ]_vars

\* A returned graph whose last input node went the fast path: it ends with
\* the forced marker, which follows the rebuilt node.
C23_ClosedAfterFastPath ==
    /\ Padded
    /\ Len(OutNodes) > 1
    /\ IsSyncMarker(OutNodes[Len(OutNodes)])
    /\ IsFastPathOut(Len(OutNodes) - 1)
    /\ pad.barrier_calls[Len(pad.barrier_calls)].force

\* ------------------------------------------------------------------ the pending measurement group

\* The scheduler is about to visit a top-level node.
SchedVisiting == pc = "schedule" /\ todo # <<>>

\* The wires of the measurements and resets that are pending.
PendingWires == UNION {m.qargs : m \in sched.current_block_measures}

\* The visit is that of an unconditioned measurement or reset on a wire of
\* the pending group.
VisitsOverlappingMeasure(n) ==
    /\ IsMeasure(n) \/ IsReset(n)
    /\ n.cond = {}
    /\ n.qargs \cap PendingWires # {}

\* When the quantum wires of n are ready in the open block.
WiresReady(n) == Max({sched.idle_after[q][2] : q \in n.qargs})

MeasurePair(i, j) ==
    /\ i < j
    /\ IsMeasure(dag.ops[i]) \/ IsReset(dag.ops[i])
    /\ IsMeasure(dag.ops[j]) \/ IsReset(dag.ops[j])
    /\ dag.ops[i].cond = {} /\ dag.ops[j].cond = {}
    /\ dag.ops[i].qargs \cap dag.ops[j].qargs # {}

C25_OverlapEndsBlock ==
    [][ (SchedVisiting /\ VisitsOverlappingMeasure(Head(todo)) /\ IsMeasure(Head(todo)))
        => \A m \in sched.current_block_measures :
               sched'.node_start_time[Head(todo).id][1] > sched.node_start_time[m.id][1] ]_vars

\* ------------------------------------------------------------------ new block start

\* The visit of a node without nested blocks started a new block.
StartsNewBlock ==
    /\ SchedVisiting
    /\ ~IsControlFlowOp(Head(todo))
    /\ sched'.error = ""
    /\ sched'.current_block_idx # sched.current_block_idx

\* C26: a visit that starts a new block raises the block index by exactly
\* one, leaves the conditional-block flag set only by a conditioned node,
\* leaves every quantum and classical wire the node is not on with the
\* idle-after (new block index, 0), and leaves nothing in the pending
\* measurement group but the node itself, the has-reset flag set only by a
\* reset.
C26_NewBlockStart ==
    [][ StartsNewBlock =>
          LET n == Head(todo)
          IN /\ sched'.current_block_idx = sched.current_block_idx + 1
             /\ sched'.conditional_block = (n.cond # {})
             /\ DOMAIN sched'.idle_after = dag.qubits \cup dag.clbits
             /\ \A b \in (dag.qubits \cup dag.clbits) \ Wires(n) :
                   sched'.idle_after[b] = <<sched'.current_block_idx, 0>>
             /\ sched'.current_block_measures \subseteq {n}
             /\ sched'.current_block_measures_has_reset
                    = (IsReset(n) /\ n.cond = {}) ]_vars

\* ------------------------------------------------------------------ plain operations

\* The visit is that of an unconditioned gate, barrier or delay with a
\* duration.
VisitsPlain(n) ==
    /\ n.kind \in {"gate", "barrier", "delay"}
    /\ n.cond = {}
    /\ n.duration >= 0

\* The latest idle-after time over the quantum and classical wires of n.
BitsReady(n) == Max({sched.idle_after[bit][2] : bit \in n.qargs \cup n.cargs})

\* C27: a plain operation on a wire of the pending measurement group is put
\* at time 0 of a new block, after the block of every pending member;
\* otherwise it is put in the open block at exactly the latest idle-after
\* time of its quantum and classical wires, or at time 0 of a new block when
\* the open block is conditional. The circuits of test_insert_midmeas_hahn
\* and test_dd_after_reset put the operations that follow the measurement
\* and the reset in block 1.
C27_PlainStart ==
    /\ [][ (SchedVisiting /\ VisitsPlain(Head(todo)))
           => LET n == Head(todo)
              IN /\ sched'.error = ""
                 /\ sched'.node_start_time[n.id] =
                        IF n.qargs \cap PendingWires # {} \/ sched.conditional_block
                        THEN <<sched.current_block_idx + 1, 0>>
                        ELSE <<sched.current_block_idx, BitsReady(n)>>
                 /\ n.qargs \cap PendingWires # {} =>
                        \A m \in sched.current_block_measures :
                            sched.node_start_time[m.id][1] < sched'.node_start_time[n.id][1] ]_vars
    /\ [](SchedulePublished /\ dag = MidMeas =>
            sched.node_start_time =
                (<<1>> :> <<0, 0>>) @@ (<<2>> :> <<0, 700>>) @@ (<<3>> :> <<0, 700>>)
                @@ (<<4>> :> <<0, 900>>) @@ (<<5>> :> <<1, 0>>) @@ (<<6>> :> <<1, 200>>))
    /\ [](SchedulePublished /\ dag = AfterReset =>
            sched.node_start_time =
                (<<1>> :> <<0, 0>>) @@ (<<2>> :> <<1, 0>>) @@ (<<3>> :> <<1, 1000>>)
                @@ (<<4>> :> <<1, 1050>>) @@ (<<5>> :> <<1, 3050>>))

\* The published schedule of test_insert_midmeas_hahn: the gate on the
\* measured wire at time 0 of block 1, the gate after it at 200.
C27_MidMeasScheduled ==
    /\ SchedulePublished
    /\ dag = MidMeas
    /\ sched.node_start_time[<<5>>] = <<1, 0>>
    /\ sched.node_start_time[<<6>>] = <<1, 200>>

\* ------------------------------------------------------------------ bit-conditioned operations

\* The visit is that of a bit-conditioned operation the scheduler accepts,
\* with a duration.
VisitsConditioned(n) == n.cond # {} /\ Conditionable(n) /\ n.duration >= 0

\* When a wire or bit is ready in the block the conditioned operation goes
\* to: its idle-after time in the open conditional block, 0 in the block
\* the visit starts otherwise.
ReadyInBlock(bit) == IF sched.conditional_block THEN sched.idle_after[bit][2] ELSE 0

\* C28: a bit-conditioned operation starts at max(t0q, t0c), t0q the latest
\* idle-after time of its quantum wires and t0c that of its conditioning
\* bits in the current block: never before any of them is ready; after the
\* visit each conditioning bit is idle from that start time and each quantum
\* wire from the end of the operation.
C28_ConditionedStart ==
    [][ (SchedVisiting /\ VisitsConditioned(Head(todo)))
        => LET n == Head(todo)
               t0q == Max({ReadyInBlock(q) : q \in n.qargs})
               t0c == Max({ReadyInBlock(bit) : bit \in n.cond})
               start == sched'.node_start_time[n.id]
           IN /\ sched'.error = ""
              /\ start = <<sched'.current_block_idx, Max({t0q, t0c})>>
              /\ \A bit \in n.qargs \cup n.cond : start[2] >= ReadyInBlock(bit)
              /\ \A bit \in n.cond :
                    sched'.idle_after[bit] = <<sched'.current_block_idx, start[2]>>
              /\ \A q \in n.qargs :
                    sched'.idle_after[q] = <<sched'.current_block_idx, start[2] + n.duration>>
       ]_vars

\* A published schedule in which a conditioned operation, the first on its
\* quantum wires, starts later than 0: it waited for its conditioning bit.
C28_WaitedForBit ==
    /\ SchedulePublished
    /\ \E k \in 1..Len(dag.ops) :
          /\ VisitsConditioned(dag.ops[k])
          /\ sched.node_start_time[dag.ops[k].id][2] > 0
          /\ \A i \in 1..(k - 1) : dag.ops[i].qargs \cap dag.ops[k].qargs = {}
    /\ \E k \in 1..Len(dag.ops) :
          /\ VisitsConditioned(dag.ops[k])
          /\ sched.node_start_time[dag.ops[k].id][2] > 0
          /\ \E i \in 1..(k - 1) :
                /\ dag.ops[i].qargs = dag.ops[k].qargs
                /\ sched.node_start_time[dag.ops[i].id] =
                       <<sched.node_start_time[dag.ops[k].id][1], 0>>

\* ------------------------------------------------------------------ block termination

\* The step terminates the open block of the top-level graph: a visit that
\* crosses into a higher block, the visit of a nested-block node, or the
\* close of the graph.
Terminates ==
    \/ Visiting /\ (CrossesBlock(Head(todo)) \/ VisitsNestedBlocks(Head(todo)))
    \/ pc = "pad" /\ todo = <<>>

\* The invocations of the policy the step made to close the open block.
ClosingCalls ==
    {k \in (Len(pad.pad_calls) + 1)..Len(pad'.pad_calls) :
        /\ pad'.pad_calls[k].origin = "block_end"
        /\ pad'.pad_calls[k].dag = pad.block_dag.id}

\* The wire is filled from its idle-after to the block's recorded duration,
\* by one invocation, when it is idle before that; else it gets no fill.
FilledToBlockEnd(q) ==
    IF pad.block_duration > get_idle_after(pad, q)
    THEN \E k \in ClosingCalls :
            /\ pad'.pad_calls[k].qubit = q
            /\ pad'.pad_calls[k].t_start = get_idle_after(pad, q)
            /\ pad'.pad_calls[k].t_end = pad.block_duration
            /\ \A j \in ClosingCalls : pad'.pad_calls[j].qubit = q => j = k
    ELSE \A k \in ClosingCalls : pad'.pad_calls[k].qubit # q

\* What the step leaves of the idle-after map and the block duration: zero,
\* but for what the node that crossed into the new block then occupies.
RestartedAfter ==
    IF Visiting /\ CrossesBlock(Head(todo))
    THEN LET n == Head(todo)
             t1 == pad.node_start_time[n.id][2] + Pad_get_node_duration(n)
         IN /\ pad'.block_duration = t1
            /\ \A q \in pad.block_dag.qubits :
                  get_idle_after(pad', q) = IF q \in n.qargs /\ ~IsDelay(n) THEN t1 ELSE 0
    ELSE /\ pad'.block_duration = 0
         /\ \A q \in pad.block_dag.qubits : get_idle_after(pad', q) = 0

\* C29: whenever the padder terminates a block, by a visit that crosses into
\* a higher block, by the visit of a nested-block node or at the close of
\* the graph, every quantum wire of the output block graph is filled from
\* its idle-after up to the recorded duration of the block, and afterwards
\* the idle-after of every wire and the block duration are zero.
C29_TerminationFills ==
    [][ (Terminates /\ pad'.error = "")
        => /\ \A q \in pad.block_dag.qubits : FilledToBlockEnd(q)
           /\ RestartedAfter ]_vars

\* ------------------------------------------------------------------ the last-writer map

\* The fast-path test is about to be made for a top-level node.
TestsFastPath == Visiting /\ Head(todo).kind = "if_else"

\* The entries of the last-writer map the test looks up.
SeenByTest == Head(todo).cond \cap DOMAIN pad.last_node_to_touch

\* The entry was recorded in the graph that is being built and in the block
\* that is open.
RecordedInOpenBlock(e) ==
    /\ e.dag = pad.block_dag.id
    /\ property_set.node_start_time[<<e.dag, e.nid>>][1] = pad.current_block_idx

\* C30: the last-writer map is reset at every block boundary and at every
\* entry into a nested sub-block, so every entry a fast-path test looks up
\* was recorded in the block graph being built, since its open block began:
\* none is of an earlier block or of another block graph.
C30_LastWriterScoped ==
    TestsFastPath =>
        \A bit \in SeenByTest : RecordedInOpenBlock(pad.last_node_to_touch[bit])

\* ------------------------------------------------------------------ waves of the traversal

\* Positions of the ancestors of node i that are grouping or
\* block-triggering nodes.
EmitAncestors(ops, i) ==
    {a \in 1..(i - 1) : i \in Descendants(ops, a) /\ emit(ops[a])}

\* The wave in which node i is scanned without being deferred: one more than
\* the latest wave of a grouping or block-triggering ancestor.
RECURSIVE Wave(_, _)
Wave(ops, i) == 1 + Max({0} \cup {Wave(ops, a) : a \in EmitAncestors(ops, i)})

IsGrouping(n) == IsMeasure(n) \/ IsReset(n)

\* Block-triggering, and not collected as a grouping node.
IsTrigger(n) == ~IsGrouping(n) /\ n.cond # {}

\* A plain node with a grouping or block-triggering descendant.
PlainBeforeBoundary(ops, i) ==
    /\ ~IsGrouping(ops[i]) /\ ops[i].cond = {}
    /\ \E d \in Descendants(ops, i) : IsGrouping(ops[d]) \/ ops[d].cond # {}

\* C31: in the order the block-order traversal yields, of two nodes of one
\* wave a grouping node (measurement, reset) comes before a block-triggering
\* node, and a plain node that has a grouping or block-triggering descendant
\* comes before both.
C31_WaveOrder ==
    pc = "traversed" =>
        \A a, b \in 1..Len(todo) :
            Wave(dag.ops, Yielded(a)) = Wave(dag.ops, Yielded(b)) =>
                /\ IsGrouping(todo[a]) /\ IsTrigger(todo[b]) => a < b
                /\ PlainBeforeBoundary(dag.ops, Yielded(a))
                       /\ (IsGrouping(todo[b]) \/ IsTrigger(todo[b])) => a < b

\* A traversal of five nodes with a wave of all three kinds, in which a
\* grouping node was yielded before a block-triggering node that precedes
\* it in the graph.
C31_GroupingOvertookTrigger ==
    /\ pc = "traversed"
    /\ Len(todo) = TraversalLen
    /\ \E a, b, c \in 1..Len(todo) :
          /\ Wave(dag.ops, Yielded(a)) = Wave(dag.ops, Yielded(b))
          /\ Wave(dag.ops, Yielded(a)) = Wave(dag.ops, Yielded(c))
          /\ IsGrouping(todo[a]) /\ IsTrigger(todo[b])
          /\ PlainBeforeBoundary(dag.ops, Yielded(c))
          /\ a < b /\ Yielded(a) > Yielded(b)

\* ------------------------------------------------------------------ nested-block nodes in the traversal

\* A traversal has just been made and nothing of it is consumed yet.
Traversed == pc \in {"schedule", "pad"} /\ Len(todo) = Len(dag.ops)

\* Grouping or block-triggering, a nested-block operation counted as
\* block-triggering whether it is bit-conditioned or not.
IsBoundary(n) == IsGrouping(n) \/ n.cond # {} \/ IsControlFlowOp(n)

\* The wave of node i when every nested-block operation defers its
\* descendants.
RECURSIVE BoundaryWave(_, _)
BoundaryWave(ops, i) ==
    1 + Max({0} \cup {BoundaryWave(ops, a) :
                        a \in {j \in 1..(i - 1) :
                                 i \in Descendants(ops, j) /\ IsBoundary(ops[j])}})

\* The nested-block node yielded at position a is emitted with the block
\* triggers of its wave, after the grouping nodes of the wave, and its
\* descendants come after every grouping and block-triggering node of the
\* wave.
EmittedAsTrigger(a) ==
    LET x == Yielded(a)
    IN /\ \A b \in 1..Len(todo) :
             IsGrouping(todo[b]) /\ BoundaryWave(dag.ops, Yielded(b)) = BoundaryWave(dag.ops, x)
                 => b < a
       /\ \A d \in 1..Len(todo) : Yielded(d) \in Descendants(dag.ops, x) =>
             \A b \in 1..Len(todo) :
                 IsBoundary(todo[b]) /\ BoundaryWave(dag.ops, Yielded(b)) = BoundaryWave(dag.ops, x)
                     => b < d

\* C32: the block-order traversal treats every nested-block operation,
\* bit-conditioned or not, as a block-triggering node: it is emitted with
\* the block triggers of its wave and all of its descendants are deferred to
\* the next wave.
C32_NestedBlockTriggers ==
    Traversed =>
        \A a \in 1..Len(todo) : IsControlFlowOp(todo[a]) => EmittedAsTrigger(a)

\* ------------------------------------------------------------------ the final list of the traversal

\* A plain node that is neither grouping nor block-triggering nor an
\* ancestor of such a node.
HeldPlain(ops, i) ==
    /\ ~IsBoundary(ops[i])
    /\ \A d \in Descendants(ops, i) : ~IsBoundary(ops[d])

\* C33: the block-order traversal yields every plain node that is neither a
\* grouping or block-triggering node nor an ancestor of one only after every
\* grouping and block-triggering node of the whole graph, and yields those
\* held nodes in an order that respects their dependencies.
C33_HeldNodesLast ==
    Traversed =>
        \A a, b \in 1..Len(todo) :
            HeldPlain(dag.ops, Yielded(a)) =>
                /\ IsBoundary(todo[b]) => b < a
                /\ HeldPlain(dag.ops, Yielded(b)) /\ a < b
                       => Yielded(a) \notin Descendants(dag.ops, Yielded(b))

\* ------------------------------------------------------------------ the origin of a block

\* The block indices the published schedule map assigns a node to.
UsedBlocks ==
    {property_set.node_start_time[id][1] : id \in DOMAIN property_set.node_start_time}

\* The pending measurement i was moved to a later common start when j
\* joined the group: i is the first node of its block on its wires and yet
\* starts later than 0, together with j.
Realigned(i, j) ==
    /\ i < j
    /\ IsMeasure(dag.ops[i]) /\ IsMeasure(dag.ops[j])
    /\ dag.ops[i].qargs \cap dag.ops[j].qargs = {}
    /\ property_set.node_start_time[dag.ops[i].id]
           = property_set.node_start_time[dag.ops[j].id]
    /\ property_set.node_start_time[dag.ops[i].id][2] > 0
    /\ \A k \in 1..(i - 1) :
          dag.ops[k].qargs \cap dag.ops[i].qargs # {}
              => property_set.node_start_time[dag.ops[k].id][1]
                     < property_set.node_start_time[dag.ops[i].id][1]

\* C34: in every published schedule each block index that a node is assigned
\* to has a node with start time 0.
C34_BlockHasOrigin ==
    SchedulePublished =>
        \A b \in UsedBlocks :
            \E id \in DOMAIN property_set.node_start_time :
                property_set.node_start_time[id] = <<b, 0>>

\* A schedule in which a pending measurement of a later block, alone on its
\* wire, was re-aligned to a later start.
C34_RealignedInLaterBlock ==
    /\ SchedulePublished
    /\ \E i, j \in 1..Len(dag.ops) :
          /\ Realigned(i, j)
          /\ property_set.node_start_time[dag.ops[i].id][1] > 0

\* ------------------------------------------------------------------ a gate after a measurement

\* Node j is a plain gate that follows the measurement or reset i on a
\* quantum wire, both in the published schedule map.
GateAfterMeasure(i, j) ==
    /\ i < j
    /\ IsMeasure(dag.ops[i]) \/ IsReset(dag.ops[i])
    /\ dag.ops[j].kind = "gate" /\ dag.ops[j].cond = {}
    /\ dag.ops[i].qargs \cap dag.ops[j].qargs # {}
    /\ {dag.ops[i].id, dag.ops[j].id} \subseteq DOMAIN property_set.node_start_time

\* C35: in the published schedule map a plain gate that follows a
\* measurement or reset on a shared quantum wire has a strictly greater
\* block index than that measurement or reset.
C35_GateAfterMeasureInLaterBlock ==
    SchedulePublished =>
        \A i, j \in 1..Len(dag.ops) :
            GateAfterMeasure(i, j) =>
                property_set.node_start_time[dag.ops[j].id][1]
                    > property_set.node_start_time[dag.ops[i].id][1]

\* ------------------------------------------------------------------ the idle-after of a pending group

\* The visit is that of an unconditioned measurement or reset.
VisitsMeasure(n) == (IsMeasure(n) \/ IsReset(n)) /\ n.cond = {}

\* C36: after a measurement or reset is added to the pending group, the
\* idle-after entry of the wires of every member of the group is the open
\* block with the aligned start time plus the measurement duration of that
\* member's own quantum wires.
C36_MemberIdleAfter ==
    [][ (SchedVisiting /\ VisitsMeasure(Head(todo)) /\ sched'.error = "")
        => \A m \in sched'.current_block_measures :
              \A bit \in m.qargs \cup m.cargs :
                 sched'.idle_after[bit] =
                     <<sched'.current_block_idx,
                       sched'.node_start_time[m.id][2]
                           + measure_duration(dag, m.qargs)>> ]_vars

\* ------------------------------------------------------------------ the padder's block index

\* The block index the schedule map the padder took over gives a node.
PadBlock(n) == pad.node_start_time[n.id][1]

\* The padder is visiting the top level of the graph the scheduler ran on.
PadsScheduledGraph == pc = "pad" /\ sched.dag = dag

\* C37: while the padder consumes the schedule map the scheduler produced
\* for the same graph, the block indices of the nodes it visits at top level
\* are non-decreasing in visit order and none is below the padder's current
\* block index, so that no block that was terminated is entered again; and
\* no visit lowers the current block index.
C37_BlockIndexMonotone ==
    /\ [](PadsScheduledGraph =>
            /\ \A k \in 1..Len(todo) : Scheduled(todo[k])
            /\ \A k, l \in 1..Len(todo) : k < l => PadBlock(todo[k]) <= PadBlock(todo[l])
            /\ \A k \in 1..Len(todo) : PadBlock(todo[k]) >= pad.current_block_idx)
    /\ [][ (PadsScheduledGraph /\ todo # <<>> /\ pad'.error = "")
             => pad'.current_block_idx >= pad.current_block_idx ]_vars

\* The padder is about to cross into a higher block for the second time or
\* later on the graph the scheduler ran on: a block was terminated before
\* and the open one is terminated by this visit.
C37_CrossesAgain ==
    /\ PadsScheduledGraph
    /\ todo # <<>>
    /\ pad.current_block_idx >= 1
    /\ ~IsControlFlowOp(Head(todo))
    /\ PadBlock(Head(todo)) > pad.current_block_idx

\* ------------------------------------------------------------------ the schedule entry of a rebuilt node

\* C38: every rebuilt nested-block node of the padded graph is recorded in
\* the output schedule map with the (block index, start time) pair its input
\* node had in the schedule map the padder took over.
C38_RebuiltNodeKeepsEntry ==
    Padded =>
        \A k \in Rebuilt(pad.ret) :
            OutStart(pad.ret.nodes[k])
                = pad.node_start_time[InputNode(pad.ret.nodes[k]).id]

\* ------------------------------------------------------------------ the schedule entry of the forced marker

\* C39: the synchronization marker force-inserted when a block graph closes
\* after a final fast-path node is recorded in the schedule map with the
\* index of the block being closed and, as start time, the duration of that
\* block.
C39_ForcedMarkerEntry ==
    [][ (ClosesAfterFastPath /\ pad'.error = "") =>
          LET marker == pad'.ret.nodes[Len(pad'.ret.nodes)]
          IN /\ IsSyncMarker(marker)
             /\ property_set'.node_start_time[<<marker.dag, marker.nid>>]
                    = <<pad.current_block_idx, pad.block_duration>> ]_vars

\* ------------------------------------------------------------------ the domain of the idle-after map

\* C40: at every step of a padding run the idle-after map has an entry for
\* every quantum wire of the output block graph being built, and the visit
\* of an instruction never fails on a missing entry of it.
C40_IdleAfterCoversWires ==
    /\ [](pc = "pad" => pad.block_dag.qubits \subseteq DOMAIN pad.idle_after)
    /\ [][ (Visiting /\ VisitsGeneric(Head(todo))) => pad'.error # "KeyError" ]_vars

====
